---- MODULE Spec2Model ----
(***************************************************************************)
(* Model of the progressive chunked summarizer of cursorifier:             *)
(*   - extractContent, the final delimiter extraction (llm-generator-v2)   *)
(*   - chunkIterator and generateWithProvider, the chunk loop              *)
(*   - rulesGenerate, the orchestrator's call into the loop                *)
(*   - the providers' generateResponse (Anthropic's retry loop and the     *)
(*     single-attempt providers)                                           *)
(*                                                                         *)
(* A text is a sequence of symbols.  A tag such as <cursorrules> is one    *)
(* symbol, whitespace characters and other characters are one symbol each. *)
(***************************************************************************)
EXTENDS Naturals, Integers, Sequences, FiniteSets, TLC

(***************************************************************************)
(* Bounds of the model.                                                    *)
(***************************************************************************)
\* longest text handed to extractContent in the exhaustive enumeration
MaxLen == 5
\* largest number of tokens of a tokenized repository text
MaxTokens == 4

(***************************************************************************)
(* Texts.                                                                  *)
(***************************************************************************)
Whitespace == {" ", "\n"}

Min(S) == CHOOSE x \in S : \A y \in S : x <= y

Max(S) == CHOOSE x \in S : \A y \in S : x >= y

\* all sequences over A of length 0..n
SeqsUpTo(A, n) == UNION {[1..k -> A] : k \in 0..n}

\* String.prototype.trim: drops the leading and the trailing whitespace
trim(s) ==
  LET keep == {p \in 1..Len(s) : s[p] \notin Whitespace}
  IN  IF keep = {} THEN <<>> ELSE SubSeq(s, Min(keep), Max(keep))

\* s occurs in t as a contiguous run of symbols (String.prototype.includes)
Contains(t, s) ==
  \E p \in 0..(Len(t) - Len(s)) : SubSeq(t, p + 1, p + Len(s)) = s

(***************************************************************************)
(* Output dialects and their delimiter tag.                                *)
(***************************************************************************)
\* "other" stands for every outputFormat value that is neither cline nor roo
\* nor cursor (undefined included): the code treats them all as cursor
Dialects == {"cursor", "cline", "roo"}

OutputFormats == Dialects \cup {"other"}

TagNames == {"cursorrules", "clinerules", "roomodes"}

OpenTag(tagName) == "<" \o tagName \o ">"

CloseTag(tagName) == "</" \o tagName \o ">"

\* a plausible slip: roo falls through to the cursor tag
tagNameOfNoRoo(outputFormat) ==
  IF outputFormat = "cline" THEN "clinerules" ELSE "cursorrules"

\* extractContent's tagName
tagNameOf(outputFormat) ==
  IF outputFormat = "cline" THEN "clinerules"
  ELSE IF outputFormat = "roo" THEN "roomodes"
  ELSE "cursorrules"

(***************************************************************************)
(* extractContent: text.match(/<tag>([\s\S]*?)<\/tag>/), then trim.        *)
(* A regular expression without the g flag returns the leftmost match; the *)
(* lazy quantifier makes that match end at the first closing tag after the *)
(* opening tag it starts at.                                               *)
(***************************************************************************)
NoMatch == [found |-> FALSE, from |-> 0, to |-> 0]

\* a plausible slip: the greedy quantifier [\s\S]* runs to the last closing tag
regexMatchGreedy(text, tagName) ==
  LET closes(p) == {q \in (p + 1)..Len(text) : text[q] = CloseTag(tagName)}
      starts == {p \in 1..Len(text) : text[p] = OpenTag(tagName) /\ closes(p) # {}}
  IN  IF starts = {} THEN NoMatch
      ELSE [found |-> TRUE, from |-> Min(starts), to |-> Max(closes(Min(starts)))]

regexMatch(text, tagName) ==
  LET closes(p) == {q \in (p + 1)..Len(text) : text[q] = CloseTag(tagName)}
      starts == {p \in 1..Len(text) : text[p] = OpenTag(tagName) /\ closes(p) # {}}
  IN  IF starts = {} THEN NoMatch
      ELSE [found |-> TRUE, from |-> Min(starts), to |-> Min(closes(Min(starts)))]

\* what extractContent does: a value, or a thrown Error naming the tag
extractContent(text, outputFormat) ==
  LET tagName == tagNameOf(outputFormat)
      m == regexMatch(text, tagName)
  IN  IF ~m.found
      THEN [kind |-> "error", value |-> <<>>, tag |-> OpenTag(tagName)]
      ELSE [kind |-> "value", value |-> trim(SubSeq(text, m.from + 1, m.to - 1)),
            tag |-> ""]

(***************************************************************************)
(* Extraction on its own: every text up to MaxLen symbols, every dialect.  *)
(***************************************************************************)
VARIABLES exText, exFormat, exOutcome

exVars == <<exText, exFormat, exOutcome>>

NotExtracted == [kind |-> "none", value |-> <<>>, tag |-> ""]

\* the symbols of the enumerated texts: both tags of the active dialect, the
\* opening tag of another dialect, a whitespace character, a body character
ExAlphabet(outputFormat) ==
  LET t == tagNameOf(outputFormat)
      o == IF t = "cursorrules" THEN "clinerules" ELSE "cursorrules"
  IN  {OpenTag(t), CloseTag(t), OpenTag(o), " ", "a"}

\* "noise <cursorrules>\nBODY\n</cursorrules> trailing", per dialect
ExampleText(outputFormat) ==
  LET t == tagNameOf(outputFormat)
  IN  <<"noise", " ", OpenTag(t), "\n", "BODY", "\n", CloseTag(t), " ", "trailing">>

ExInit ==
  /\ exFormat \in OutputFormats
  /\ exText \in SeqsUpTo(ExAlphabet(exFormat), MaxLen) \cup {ExampleText(exFormat)}
  /\ exOutcome = NotExtracted

ExIdle ==
  /\ exFormat = "cursor"
  /\ exText = <<>>
  /\ exOutcome = NotExtracted

ExtractFinal ==
  /\ exOutcome.kind = "none"
  /\ exOutcome' = extractContent(exText, exFormat)
  /\ UNCHANGED <<exText, exFormat>>

(***************************************************************************)
(* The chunker: calculateChunkCount and chunkIterator.                     *)
(***************************************************************************)
\* an optional number: absent, or present with a value
Absent == [set |-> FALSE, v |-> 0]

Num(n) == [set |-> TRUE, v |-> n]

\* JavaScript truthiness of an optional number
Truthy(num) == num.set /\ num.v # 0

\* largest chunk size a caller passes
MaxChunkSize == 3

\* const CHUNK_SIZE = Number(process.env.CHUNK_SIZE || '100000')
CHUNK_SIZE == 100000

\* options.chunkSize; 0 stands for the falsy values (undefined, 0, NaN)
ChunkSizeOptions == 0..MaxChunkSize

\* options.chunkDelay in ms: not supplied, 0, or one second
ChunkDelayOptions == {Absent, Num(0), Num(1000)}

\* options.chunkDelay || 5000
delayOf(chunkDelay) == IF Truthy(chunkDelay) THEN chunkDelay.v ELSE 5000

\* chunkSize || CHUNK_SIZE
cSizeOf(chunkSize) == IF chunkSize = 0 THEN CHUNK_SIZE ELSE chunkSize

\* Math.ceil(a / b) for a >= 0 and b # 0
Ceil(a, b) == IF b > 0 THEN (a + b - 1) \div b ELSE 0 - (a \div (0 - b))

\* a plausible slip: one more than the whole quotient, which overshoots when
\* the chunk size divides the total
calculateChunkCountPlusOne(totalTokens, chunkSize) ==
  IF totalTokens <= chunkSize THEN 1 ELSE totalTokens \div chunkSize + 1

calculateChunkCount(totalTokens, chunkSize) ==
  IF totalTokens <= chunkSize THEN 1 ELSE Ceil(totalTokens, chunkSize)

\* Array.prototype.slice(start, end) with 0-based indices: a negative index
\* counts from the end, and both are clamped to 0..length
slice(array, start, end) ==
  LET from == IF start < 0 THEN Max({Len(array) + start, 0}) ELSE Min({start, Len(array)})
      to == IF end < 0 THEN Max({Len(array) + end, 0}) ELSE Min({end, Len(array)})
  IN  SubSeq(array, from + 1, to)

\* a plausible slip: the slice has no end, so a chunk runs to the last token
chunkSliceToEnd(tokens, i, cSize) == SubSeq(tokens, i + 1, Len(tokens))

\* tokens.slice(i, Math.min(i + cSize, tokens.length)), i being 0-based
chunkSlice(tokens, i, cSize) == slice(tokens, i, Min({i + cSize, Len(tokens)}))

\* the chunker of the first release stepped back by an overlap after each chunk
nextOffsetOverlap(i, cSize) == i + cSize - 1

\* i += cSize
nextOffset(i, cSize) == i + cSize

\* encoding.decode(chunkTokens): token k of the input reads "tok<k>"
decode(chunkTokens) ==
  [j \in 1..Len(chunkTokens) |-> "tok" \o ToString(chunkTokens[j])]

\* answer.toLowerCase()
toLowerCase(answer) ==
  CASE answer = "Y" -> "y"
    [] answer = "YES" -> "yes"
    [] answer = "N" -> "n"
    [] OTHER -> answer

\* what an operator may type at the question
TypedAnswers == {"y", "Y", "yes", "YES", "n", "N", "no", ""}

\* the answers the runs are given: every run that proceeds goes the same way
Answers == {"YES", "n", ""}

\* before the question is answered
NoAnswer == "<none>"

\* a plausible slip: only a plain "n" cancels, so an empty answer proceeds
proceedUnlessNo(answer) == toLowerCase(answer) # "n"

\* answer.toLowerCase() === 'y' || answer.toLowerCase() === 'yes'
proceedOf(answer) == toLowerCase(answer) = "y" \/ toLowerCase(answer) = "yes"

(***************************************************************************)
(* The prompts of generateWithProvider.                                     *)
(***************************************************************************)
systemPromptOf(outputFormat) ==
  IF outputFormat = "cline" THEN "system: generate Cline rules (.clinerules)"
  ELSE IF outputFormat = "roo" THEN "system: generate Roo Custom Modes (.roomodes)"
  ELSE "system: generate Cursor AI rules (.cursorrules)"

outputTypeOf(outputFormat) ==
  IF outputFormat = "cline" THEN "Cline rules (.clinerules)"
  ELSE IF outputFormat = "roo" THEN "Roo Custom Modes (.roomodes)"
  ELSE "Cursor rules (.cursorrules)"

\* the tag the creation prompt asks for: "inside <...> tags"
createPromptTag(outputFormat) ==
  IF outputFormat = "cline" THEN "clinerules"
  ELSE IF outputFormat = "roo" THEN "roomodes"
  ELSE "cursorrules"

\* the tag the update prompt asks for: "inside <...> tags"
updatePromptTag(outputFormat) ==
  IF outputFormat = "cline" THEN "clinerules"
  ELSE IF outputFormat = "roo" THEN "roomodes"
  ELSE "cursorrules"

createPrompt(chunk, outputFormat) ==
  <<"I need your help to create", outputTypeOf(outputFormat), "<repository_chunk>">>
  \o chunk
  \o <<"</repository_chunk>", "<guidelines>", "GUIDELINES", "</guidelines>",
       "Include your final content inside", OpenTag(createPromptTag(outputFormat)),
       "tags.", "Example structure:", OpenTag(createPromptTag(outputFormat)), "\n",
       "...", "\n", CloseTag(createPromptTag(outputFormat))>>

\* a plausible slip: the update prompt carries the delimiter-extracted draft
updatePromptExtracted(currentSummary, chunk, outputFormat) ==
  <<"I need your help to update", outputTypeOf(outputFormat), "<current_rules>">>
  \o extractContent(currentSummary, outputFormat).value
  \o <<"</current_rules>", "<repository_chunk>">>
  \o chunk
  \o <<"</repository_chunk>", "<guidelines>", "GUIDELINES", "</guidelines>",
       "Include your final updated content inside",
       OpenTag(updatePromptTag(outputFormat)), "tags.">>

updatePrompt(currentSummary, chunk, outputFormat) ==
  <<"I need your help to update", outputTypeOf(outputFormat), "<current_rules>">>
  \o currentSummary
  \o <<"</current_rules>", "<repository_chunk>">>
  \o chunk
  \o <<"</repository_chunk>", "<guidelines>", "GUIDELINES", "</guidelines>",
       "Include your final updated content inside",
       OpenTag(updatePromptTag(outputFormat)), "tags.">>

(***************************************************************************)
(* Providers as the summarizer sees them.                                  *)
(***************************************************************************)
ProviderTypes == {"anthropic", "openai", "local"}

displayNameOf(providerType) ==
  CASE providerType = "anthropic" -> "Anthropic Claude"
    [] providerType = "openai" -> "OpenAI"
    [] providerType = "local" -> "Local (OpenAI-compatible)"
    [] OTHER -> "AWS Bedrock"

\* the contents a provider may return, for the active dialect: empty, prose
\* without tags, a tagged draft with prose around it, two tag pairs, and a
\* draft wrapped in another dialect's tags
ResponseContents(outputFormat) ==
  LET t == tagNameOf(outputFormat)
      o == IF t = "cursorrules" THEN "clinerules" ELSE "cursorrules"
  IN  { <<>>,
        <<"prose">>,
        <<"noise", " ", OpenTag(t), "\n", "BODY", "\n", CloseTag(t), " ", "trailing">>,
        <<OpenTag(t), "first", CloseTag(t), OpenTag(t), "second", CloseTag(t)>>,
        <<OpenTag(o), "BODY", CloseTag(o)>> }

\* a plausible slip: the draft is delimiter-extracted after every chunk
storedDraftExtracted(content, outputFormat) == extractContent(content, outputFormat).value

\* currentSummary = response.content
storedDraft(content, outputFormat) == content

\* a plausible slip: the error reports the 0-based chunk index
chunkNumberZeroBased(index) == index

\* the chunk number of the progress display, the file names and the errors
chunkNumber(index) == index + 1

(***************************************************************************)
(* One run of rulesGenerate -> generateWithLLM -> generateWithProvider,     *)
(* from the point where the provider config has passed validateConfig.     *)
(* options.apiKey is not 'dummy-key' (generateWithLLM's mock shortcut),    *)
(* description and ruleType are absent.                                    *)
(***************************************************************************)
VARIABLES
  outputFormat,    \* the outputFormat argument
  providerType,    \* options.provider
  chunkSize,       \* options.chunkSize
  chunkDelay,      \* options.chunkDelay
  tokens,          \* encoding.encode(sanitizedText)
  pc,              \* where the run is
  i,               \* chunkIterator's i
  chunkIndex,      \* chunkIterator's chunkIndex
  totalChunks,     \* chunkIterator's totalChunks
  currentSummary,  \* the running draft
  asked,           \* how often the confirmation question was asked
  yielded,         \* the chunks yielded so far
  yieldedTokens,   \* the token slice of each yielded chunk
  prompts,         \* the messages built so far
  calls,           \* the chunk index of each provider call issued
  outstanding,     \* the chunk indexes whose provider call has not returned
  responses,       \* the contents the provider returned
  files,           \* the intermediate files written
  delays,          \* the pauses taken, in ms
  extractInputs,   \* the texts extractContent was applied to
  result,          \* what generateWithProvider returned
  error,           \* what rulesGenerate threw
  finalFile,       \* what rulesGenerate wrote to the rules file
  answer,          \* what the operator typed at the question
  exitCodes        \* the statuses chunkIterator passed to process.exit

inputVars == <<outputFormat, providerType, chunkSize, chunkDelay, tokens>>

loopVars == <<pc, i, chunkIndex, totalChunks, currentSummary>>

logVars == <<asked, yielded, yieldedTokens, prompts, calls, outstanding, responses,
             files, delays, extractInputs, result, error, finalFile>>

gateVars == <<answer, exitCodes>>

runVars == <<inputVars, loopVars, logVars, gateVars>>

NoError == [kind |-> "none", text |-> "", chunk |-> 0, provider |-> "", tag |-> ""]

NoFile == [written |-> FALSE, content |-> <<>>]

RunStart ==
  /\ pc = "confirm"
  /\ i = 0
  /\ chunkIndex = 0
  /\ totalChunks = 0
  /\ currentSummary = <<>>
  /\ asked = 0
  /\ yielded = <<>>
  /\ yieldedTokens = <<>>
  /\ prompts = <<>>
  /\ calls = <<>>
  /\ outstanding = {}
  /\ responses = <<>>
  /\ files = {}
  /\ delays = <<>>
  /\ extractInputs = <<>>
  /\ result = NotExtracted
  /\ error = NoError
  /\ finalFile = NoFile
  /\ answer = NoAnswer
  /\ exitCodes = <<>>

RunInit ==
  /\ outputFormat \in OutputFormats
  /\ providerType \in ProviderTypes
  /\ chunkSize \in ChunkSizeOptions
  /\ chunkDelay \in ChunkDelayOptions
  /\ \E n \in 0..MaxTokens : tokens = [k \in 1..n |-> k]
  /\ RunStart

RunIdle ==
  /\ outputFormat = "cursor"
  /\ providerType = "anthropic"
  /\ chunkSize = 0
  /\ chunkDelay = Absent
  /\ tokens = <<>>
  /\ RunStart

cSize == cSizeOf(chunkSize)

\* chunkIterator up to its first yield: the cost estimate and the question
Confirm ==
  /\ pc = "confirm"
  /\ \E a \in Answers :
       /\ answer' = a
       /\ asked' = asked + 1
       /\ IF proceedOf(a)
          THEN /\ totalChunks' = calculateChunkCount(Len(tokens), cSizeOf(chunkSize))
               /\ exitCodes' = exitCodes
               /\ pc' = "iter"
          ELSE /\ totalChunks' = totalChunks
               /\ exitCodes' = Append(exitCodes, 0)
               /\ pc' = "exited"
  /\ UNCHANGED <<i, chunkIndex, currentSummary>>
  /\ UNCHANGED <<yielded, yieldedTokens, prompts, calls, outstanding, responses,
                 files, delays, extractInputs, result, error, finalFile>>
  /\ UNCHANGED inputVars

\* a plausible slip: the provider call is not awaited, so the loop goes on to
\* the next chunk while the call is outstanding
ProcessChunkNoAwait ==
  /\ pc = "iter"
  /\ i < Len(tokens)
  /\ LET chunkTokens == chunkSlice(tokens, i, cSize)
         chunk == decode(chunkTokens)
         isFirstChunk == chunkIndex = 0
         userPrompt == IF isFirstChunk
                       THEN createPrompt(chunk, outputFormat)
                       ELSE updatePrompt(currentSummary, chunk, outputFormat)
     IN  /\ yielded' = Append(yielded, [chunk |-> chunk, index |-> chunkIndex,
                                        tokenCount |-> Len(chunkTokens),
                                        totalChunks |-> totalChunks])
         /\ yieldedTokens' = Append(yieldedTokens, chunkTokens)
         /\ prompts' = Append(prompts,
                              [index |-> chunkIndex,
                               kind |-> IF isFirstChunk THEN "create" ELSE "update",
                               system |-> systemPromptOf(outputFormat),
                               user |-> userPrompt])
  /\ calls' = Append(calls, chunkIndex)
  /\ outstanding' = outstanding \cup {chunkIndex}
  /\ i' = nextOffset(i, cSize)
  /\ chunkIndex' = chunkIndex + 1
  /\ pc' = "iter"
  /\ UNCHANGED <<totalChunks, currentSummary>>
  /\ UNCHANGED <<asked, responses, files, delays, extractInputs, result, error, finalFile>>
  /\ UNCHANGED inputVars
  /\ UNCHANGED gateVars

\* one turn of the while loop and of the for-await body, up to the await of
\* provider.generateResponse
ProcessChunk ==
  /\ pc = "iter"
  /\ i < Len(tokens)
  /\ LET chunkTokens == chunkSlice(tokens, i, cSize)
         chunk == decode(chunkTokens)
         isFirstChunk == chunkIndex = 0
         userPrompt == IF isFirstChunk
                       THEN createPrompt(chunk, outputFormat)
                       ELSE updatePrompt(currentSummary, chunk, outputFormat)
     IN  /\ yielded' = Append(yielded, [chunk |-> chunk, index |-> chunkIndex,
                                        tokenCount |-> Len(chunkTokens),
                                        totalChunks |-> totalChunks])
         /\ yieldedTokens' = Append(yieldedTokens, chunkTokens)
         /\ prompts' = Append(prompts,
                              [index |-> chunkIndex,
                               kind |-> IF isFirstChunk THEN "create" ELSE "update",
                               system |-> systemPromptOf(outputFormat),
                               user |-> userPrompt])
  /\ calls' = Append(calls, chunkIndex)
  /\ outstanding' = outstanding \cup {chunkIndex}
  /\ pc' = "calling"
  /\ UNCHANGED <<i, chunkIndex, totalChunks, currentSummary>>
  /\ UNCHANGED <<asked, responses, files, delays, extractInputs, result, error, finalFile>>
  /\ UNCHANGED inputVars
  /\ UNCHANGED gateVars

\* the provider call returns: the draft is overwritten, the intermediate file
\* written, and the loop either pauses or goes on to the next chunk
ProviderReturns ==
  /\ pc = "calling"
  /\ \E content \in ResponseContents(outputFormat) :
       /\ currentSummary' = storedDraft(content, outputFormat)
       /\ responses' = Append(responses, content)
  /\ outstanding' = outstanding \ {chunkIndex}
  /\ files' = files \cup {[n |-> chunkNumber(chunkIndex), of |-> totalChunks]}
  /\ IF chunkIndex < totalChunks - 1
     THEN /\ delays' = Append(delays, delayOf(chunkDelay))
          /\ pc' = "delay"
          /\ UNCHANGED <<i, chunkIndex>>
     ELSE /\ delays' = delays
          /\ i' = nextOffset(i, cSize)
          /\ chunkIndex' = chunkIndex + 1
          /\ pc' = "iter"
  /\ UNCHANGED <<totalChunks>>
  /\ UNCHANGED <<asked, yielded, yieldedTokens, prompts, calls, extractInputs,
                 result, error, finalFile>>
  /\ UNCHANGED inputVars
  /\ UNCHANGED gateVars

\* the provider call throws: generateWithProvider rethrows with the chunk and
\* the provider, rulesGenerate rethrows and writes nothing
ProviderThrows ==
  /\ pc = "calling"
  /\ outstanding' = outstanding \ {chunkIndex}
  /\ \E isError \in BOOLEAN :
       error' = [kind |-> "provider",
                 text |-> IF isError THEN "Error generating with"
                          ELSE "Unknown error occurred while generating with",
                 chunk |-> chunkNumber(chunkIndex),
                 provider |-> displayNameOf(providerType), tag |-> ""]
  /\ pc' = "failed"
  /\ UNCHANGED <<i, chunkIndex, totalChunks, currentSummary>>
  /\ UNCHANGED <<asked, yielded, yieldedTokens, prompts, calls, responses, files,
                 delays, extractInputs, result, finalFile>>
  /\ UNCHANGED inputVars
  /\ UNCHANGED gateVars

\* the pause between chunks ends and the generator moves on
DelayElapsed ==
  /\ pc = "delay"
  /\ i' = nextOffset(i, cSize)
  /\ chunkIndex' = chunkIndex + 1
  /\ pc' = "iter"
  /\ UNCHANGED <<totalChunks, currentSummary>>
  /\ UNCHANGED logVars
  /\ UNCHANGED inputVars
  /\ UNCHANGED gateVars

\* the generator is exhausted: extractContent(currentSummary), and on success
\* rulesGenerate writes the rules file
Finish ==
  /\ pc = "iter"
  /\ ~(i < Len(tokens))
  /\ extractInputs' = Append(extractInputs, currentSummary)
  /\ LET out == extractContent(currentSummary, outputFormat)
     IN  IF out.kind = "value"
         THEN /\ result' = out
              /\ finalFile' = [written |-> TRUE, content |-> out.value]
              /\ error' = error
              /\ pc' = "done"
         ELSE /\ error' = [kind |-> "extraction", text |-> "Response does not contain",
                           chunk |-> 0, provider |-> "", tag |-> out.tag]
              /\ pc' = "failed"
              /\ UNCHANGED <<result, finalFile>>
  /\ UNCHANGED <<i, chunkIndex, totalChunks, currentSummary>>
  /\ UNCHANGED <<asked, yielded, yieldedTokens, prompts, calls, outstanding, responses,
                 files, delays>>
  /\ UNCHANGED inputVars
  /\ UNCHANGED gateVars

(***************************************************************************)
(* BaseLLMProvider: validateConfig and handleApiError.                     *)
(***************************************************************************)
\* a temperature is counted in ten-thousandths: 2.0001 is 20001
TemperatureScale == 10000

AllProviders == {"anthropic", "openai", "local", "bedrock"}

requiresApiKeyOf(provider) == provider \in {"anthropic", "openai"}

\* the phrases handleApiError and the retry loop look for in a message
Keywords == {"API key", "rate limit", "quota", "timeout", "network", "connection"}

\* a thrown value: whether it is an Error, its status property (0: none) and
\* the phrases its message holds
ThrownValues == [isError : BOOLEAN, status : {0, 401, 429, 500}, message : SUBSET Keywords]

NoThrown == [isError |-> FALSE, status |-> 0, message |-> {}]

\* a plausible slip: the upper end of the temperature range is left out
validateConfigBelowTwo(provider, config) ==
  IF requiresApiKeyOf(provider) /\ config.apiKey = ""
  THEN displayNameOf(provider) \o " requires an API key. Please set the appropriate environment variable."
  ELSE IF config.model = ""
  THEN "Model is required for LLM generation"
  ELSE IF Truthy(config.maxTokens) /\ config.maxTokens.v <= 0
  THEN "maxTokens must be a positive number"
  ELSE IF Truthy(config.temperature)
          /\ (config.temperature.v < 0 \/ config.temperature.v >= 2 * TemperatureScale)
  THEN "temperature must be between 0 and 2"
  ELSE ""

\* the message BaseLLMProvider.validateConfig throws, "" when the config passes
validateConfig(provider, config) ==
  IF requiresApiKeyOf(provider) /\ config.apiKey = ""
  THEN displayNameOf(provider) \o " requires an API key. Please set the appropriate environment variable."
  ELSE IF config.model = ""
  THEN "Model is required for LLM generation"
  ELSE IF Truthy(config.maxTokens) /\ config.maxTokens.v <= 0
  THEN "maxTokens must be a positive number"
  ELSE IF Truthy(config.temperature)
          /\ (config.temperature.v < 0 \/ config.temperature.v > 2 * TemperatureScale)
  THEN "temperature must be between 0 and 2"
  ELSE ""

\* new URL(urlString) does not throw
isValidUrl(urlString) == urlString # "not a url"

\* provider.validateConfig(config): LocalProvider checks its baseURL as well
validateConfigOf(provider, config) ==
  IF validateConfig(provider, config) # ""
  THEN validateConfig(provider, config)
  ELSE IF provider = "local" /\ config.baseURL # "" /\ ~isValidUrl(config.baseURL)
  THEN "baseURL must be a valid URL"
  ELSE ""

\* the Error validateConfig throws, as a thrown value
configError(provider, config) ==
  [isError |-> TRUE, status |-> 0,
   message |-> IF requiresApiKeyOf(provider) /\ config.apiKey = ""
               THEN {"API key"} ELSE {}]

\* the category of the Error handleApiError throws
handleApiError(thrown, context) ==
  IF thrown.isError
  THEN IF "API key" \in thrown.message THEN "Authentication failed"
       ELSE IF "rate limit" \in thrown.message \/ "quota" \in thrown.message
       THEN "Rate limit exceeded"
       ELSE IF "timeout" \in thrown.message THEN "Request timeout"
       ELSE IF "network" \in thrown.message \/ "connection" \in thrown.message
       THEN "Network error"
       ELSE context
  ELSE context \o ": Unknown error occurred"

contextOf(provider) ==
  CASE provider = "anthropic" -> "Anthropic API error"
    [] provider = "openai" -> "OpenAI API error"
    [] provider = "local" -> "Local API error"
    [] OTHER -> "AWS Bedrock API error"

(***************************************************************************)
(* generateResponse: Anthropic's retry loop, one attempt elsewhere.        *)
(***************************************************************************)
\* const maxRetries = 3
maxRetries == 3

RECURSIVE Pow2(_)
Pow2(n) == IF n = 0 THEN 1 ELSE 2 * Pow2(n - 1)

\* a plausible slip: a linear backoff
backoffDelayLinear(attempt) == (attempt + 1) * 2000

\* Math.pow(2, attempt) * 2000
backoffDelay(attempt) == Pow2(attempt) * 2000

\* a plausible slip: every error is retried
isRateLimitErrorAny(thrown) == TRUE

\* errorObj.status === 429 || errorObj.message.includes('rate limit')
isRateLimitError(thrown) == thrown.status = 429 \/ "rate limit" \in thrown.message

\* only the Anthropic provider wraps its attempt in a retry loop
hasRetryLoop(provider) == provider = "anthropic"

VARIABLES
  rProvider,   \* the provider whose generateResponse is called
  rConfig,     \* the config passed to the call
  rPc,         \* where the call is
  attempt,     \* the loop variable of the retry loop
  rRequests,   \* the requests sent so far
  rWaits,      \* the backoff waits taken so far, in ms
  rLog,        \* what each attempt ended with
  rThrown,     \* the value the last failed attempt caught
  rOutcome,    \* what the call returned or threw
  rResponse,   \* the response object the back end answered with
  rResult      \* the content and usage of the LLMResponse returned

retryVars == <<rProvider, rConfig, rPc, attempt, rRequests, rWaits, rLog, rThrown, rOutcome,
               rResponse, rResult>>

\* a response object: whether a content field the provider knows is absent,
\* holds an empty text or holds a text; whether that field is a list (content,
\* choices, results, generations) or a plain string (generation, text); and
\* whether the usage counters are there
Responses == [content : {"absent", "empty", "text"}, inList : BOOLEAN, usage : BOOLEAN]

NoResponse == [content |-> "none", inList |-> FALSE, usage |-> FALSE]

NoResult == [content |-> "<none>", usage |-> "<none>"]

\* provider.extractContent(response): Anthropic, OpenAI and Local return ''
\* when they find no text; Bedrock throws when no branch returns, and an
\* empty generation or text string is falsy and takes no branch
extractContentOf(provider, response) ==
  IF provider = "bedrock"
  THEN IF response.content = "text" THEN [ok |-> TRUE, content |-> "text"]
       ELSE IF response.content = "empty" /\ response.inList
       THEN [ok |-> TRUE, content |-> ""]
       ELSE [ok |-> FALSE, content |-> ""]
  ELSE [ok |-> TRUE, content |-> IF response.content = "text" THEN "text" ELSE ""]

\* provider.extractUsage(response)
extractUsageOf(provider, response) == IF response.usage THEN "counters" ELSE "undefined"

\* new Error('Unable to extract content from Bedrock response')
ExtractionError == [isError |-> TRUE, status |-> 0, message |-> {}]

ValidConfig == [apiKey |-> "sk-key", model |-> "model", maxTokens |-> Num(8000),
                temperature |-> Num(7000), baseURL |-> ""]

\* the configs a call is made with: a valid one, one without an API key, one
\* without a model, and ones whose maxTokens or temperature is out of range
RetryConfigs == {ValidConfig, [ValidConfig EXCEPT !.apiKey = ""],
                 [ValidConfig EXCEPT !.model = ""],
                 [ValidConfig EXCEPT !.maxTokens = Num(0)],
                 [ValidConfig EXCEPT !.maxTokens = Num(-1)],
                 [ValidConfig EXCEPT !.temperature = Num(2 * TemperatureScale + 1)]}

NoOutcome == [kind |-> "none", category |-> ""]

RetryStart ==
  /\ rPc = "attempt"
  /\ attempt = 0
  /\ rRequests = 0
  /\ rWaits = <<>>
  /\ rLog = <<>>
  /\ rThrown = NoThrown
  /\ rOutcome = NoOutcome
  /\ rResponse = NoResponse
  /\ rResult = NoResult

RetryInit ==
  /\ rProvider \in AllProviders
  /\ rConfig \in RetryConfigs
  /\ RetryStart

RetryIdle ==
  /\ rProvider = "anthropic"
  /\ rConfig = ValidConfig
  /\ RetryStart

\* what the log keeps of an attempt
LogEntry(ok, sent, thrown) ==
  [ok |-> ok, sent |-> sent, status429 |-> thrown.status = 429,
   saysRateLimit |-> "rate limit" \in thrown.message]

\* the catch block: a retry after a backoff wait, or the error propagates
Caught(thrown, sent) ==
  /\ rThrown' = thrown
  /\ rLog' = Append(rLog, LogEntry(FALSE, sent, thrown))
  /\ IF hasRetryLoop(rProvider) /\ isRateLimitError(thrown) /\ attempt < maxRetries
     THEN /\ rWaits' = Append(rWaits, backoffDelay(attempt))
          /\ rPc' = "backoff"
          /\ rOutcome' = rOutcome
     ELSE /\ rWaits' = rWaits
          /\ rPc' = "thrown"
          /\ rOutcome' = [kind |-> "thrown",
                          category |-> handleApiError(thrown, contextOf(rProvider))]

\* validateConfig fails at the head of an attempt: nothing is sent.  Bedrock
\* validates outside its try block, so the config error propagates as it is
ConfigRejected ==
  /\ rPc = "attempt"
  /\ validateConfigOf(rProvider, rConfig) # ""
  /\ IF rProvider = "bedrock"
     THEN /\ rPc' = "thrown"
          /\ rOutcome' = [kind |-> "thrown", category |-> validateConfigOf(rProvider, rConfig)]
          /\ rThrown' = configError(rProvider, rConfig)
          /\ rLog' = Append(rLog, LogEntry(FALSE, FALSE, configError(rProvider, rConfig)))
          /\ rWaits' = rWaits
     ELSE Caught(configError(rProvider, rConfig), FALSE)
  /\ UNCHANGED <<rProvider, rConfig, attempt, rRequests, rResponse, rResult>>

\* validateConfig passes and the request is sent
SendRequest ==
  /\ rPc = "attempt"
  /\ validateConfigOf(rProvider, rConfig) = ""
  /\ rRequests' = rRequests + 1
  /\ rPc' = "inflight"
  /\ UNCHANGED <<rProvider, rConfig, attempt, rWaits, rLog, rThrown, rOutcome,
                 rResponse, rResult>>

\* the back end answers: generateResponse returns what extractContent and
\* extractUsage read from the response, or extractContent throws inside the
\* try block
ResponseArrives ==
  /\ rPc = "inflight"
  /\ \E response \in Responses :
       /\ rResponse' = response
       /\ IF extractContentOf(rProvider, response).ok
          THEN /\ rLog' = Append(rLog, LogEntry(TRUE, TRUE, NoThrown))
               /\ rOutcome' = [kind |-> "returned", category |-> ""]
               /\ rResult' = [content |-> extractContentOf(rProvider, response).content,
                              usage |-> extractUsageOf(rProvider, response)]
               /\ rPc' = "returned"
               /\ UNCHANGED <<rWaits, rThrown>>
          ELSE /\ Caught(ExtractionError, TRUE)
               /\ rResult' = rResult
  /\ UNCHANGED <<rProvider, rConfig, attempt, rRequests>>

\* the request throws
RequestFails ==
  /\ rPc = "inflight"
  /\ \E thrown \in ThrownValues : Caught(thrown, TRUE)
  /\ UNCHANGED <<rProvider, rConfig, attempt, rRequests, rResponse, rResult>>

\* the backoff wait is over: continue with the next attempt
BackoffElapsed ==
  /\ rPc = "backoff"
  /\ attempt' = attempt + 1
  /\ rPc' = "attempt"
  /\ UNCHANGED <<rProvider, rConfig, rRequests, rWaits, rLog, rThrown, rOutcome,
                 rResponse, rResult>>

(***************************************************************************)
(* LLMProviderRegistry, and generateWithProvider up to validateConfig.      *)
(***************************************************************************)
\* most providers a caller registers on top of the default ones
MaxRegistrations == 2

\* the registry of the TypeScript source registers Anthropic, OpenAI and
\* Local; the compiled registry registers Bedrock as well
Builds == {"src", "lib"}

\* the provider names a caller asks for
RequestedTypes == AllProviders \cup {"gemini"}

defaultModelOf(name) ==
  CASE name = "anthropic" -> "claude-3-5-sonnet-20241022"
    [] name = "openai" -> "gpt-4o"
    [] name = "local" -> "llama3.1"
    [] OTHER -> "anthropic.claude-3-7-sonnet-20250219-v1:0"

\* a provider instance: id 0 is the one registerDefaultProviders constructs
DefaultProvider(name) == [name |-> name, id |-> 0, defaultModel |-> defaultModelOf(name)]

NoProvider == [name |-> "", id |-> 0, defaultModel |-> ""]

\* a plausible slip: a name already taken keeps its first instance
registerKeepFirst(providers, provider) ==
  IF \E k \in DOMAIN providers : providers[k].name = provider.name
  THEN providers
  ELSE Append(providers, provider)

\* this.providers.set(provider.name, provider): a Map keeps the position of a
\* key it already holds
register(providers, provider) ==
  IF \E k \in DOMAIN providers : providers[k].name = provider.name
  THEN [k \in DOMAIN providers |->
          IF providers[k].name = provider.name THEN provider ELSE providers[k]]
  ELSE Append(providers, provider)

\* the register calls of registerDefaultProviders, in order
defaultRegistrations(build) ==
  <<DefaultProvider("anthropic"), DefaultProvider("openai"), DefaultProvider("local")>>
    \o (IF build = "lib" THEN <<DefaultProvider("bedrock")>> ELSE <<>>)

RECURSIVE registerAll(_, _)
registerAll(providers, list) ==
  IF list = <<>> THEN providers
  ELSE registerAll(register(providers, Head(list)), Tail(list))

registerDefaultProviders(build) == registerAll(<<>>, defaultRegistrations(build))

\* Array.from(this.providers.keys())
listProviderNames(providers) == [k \in DOMAIN providers |-> providers[k].name]

\* names.join(sep)
RECURSIVE join(_, _)
join(names, sep) ==
  IF names = <<>> THEN ""
  ELSE IF Len(names) = 1 THEN names[1]
  ELSE names[1] \o sep \o join(Tail(names), sep)

\* getProvider(type): the instance, or the message of the Error thrown
getProvider(providers, type) ==
  IF \E k \in DOMAIN providers : providers[k].name = type
  THEN [ok |-> TRUE,
        provider |-> providers[CHOOSE k \in DOMAIN providers : providers[k].name = type],
        message |-> ""]
  ELSE [ok |-> FALSE, provider |-> NoProvider,
        message |-> "Provider '" \o type \o "' not found. Available providers: "
                    \o join(listProviderNames(providers), ", ")]

EnvVars == {"ANTHROPIC_API_KEY", "OPENAI_API_KEY", "LOCAL_API_KEY"}

\* process.env: "" is an unset variable
Envs == {[v \in EnvVars |-> ""], [v \in EnvVars |-> "env:" \o v]}

\* getApiKeyEnvVar(providerType): "" when it throws 'Unknown provider type'
getApiKeyEnvVar(type) ==
  CASE type = "anthropic" -> "ANTHROPIC_API_KEY"
    [] type = "openai" -> "OPENAI_API_KEY"
    [] type = "local" -> "LOCAL_API_KEY"
    [] OTHER -> ""

NoConfig == [apiKey |-> "", model |-> "", maxTokens |-> Absent, temperature |-> Absent,
             baseURL |-> ""]

\* getDefaultConfig(providerType): the config, or the message of the Error
getDefaultConfig(providers, env, type) ==
  LET found == getProvider(providers, type)
      apiKeyEnvVar == getApiKeyEnvVar(type)
  IN  IF ~found.ok
      THEN [ok |-> FALSE, config |-> NoConfig, message |-> found.message]
      ELSE IF apiKeyEnvVar = ""
      THEN [ok |-> FALSE, config |-> NoConfig,
            message |-> "Unknown provider type: " \o type]
      ELSE [ok |-> TRUE, message |-> "",
            config |-> [model |-> found.provider.defaultModel,
                        apiKey |-> env[apiKeyEnvVar],
                        maxTokens |-> Num(8000),
                        temperature |-> Num((7 * TemperatureScale) \div 10),
                        baseURL |-> IF type = "local"
                                    THEN "http://localhost:11434/v1" ELSE ""]]

\* a text option of the caller: no such key, or a key whose value is
\* undefined ("") or a text
TextOption(values) ==
  {[own |-> FALSE, v |-> ""]} \cup {[own |-> TRUE, v |-> x] : x \in {""} \cup values}

\* a numeric option of the caller: no such key, or a key whose value is
\* undefined (Absent) or a number
NumberOption(values) ==
  {[own |-> FALSE, v |-> Absent]} \cup {[own |-> TRUE, v |-> x] : x \in {Absent} \cup values}

\* the options generateWithProvider is called with
StartOptions ==
  [apiKey : TextOption({"sk-cli"}),
   baseURL : TextOption({"http://host:8080/v1"}),
   maxTokens : NumberOption({Num(0), Num(100)}),
   temperature : NumberOption({Num(0), Num(2 * TemperatureScale + 1)}),
   model : {[own |-> FALSE, v |-> ""], [own |-> TRUE, v |-> "my-model"]}]

NoOptions ==
  [apiKey |-> [own |-> FALSE, v |-> ""], baseURL |-> [own |-> FALSE, v |-> ""],
   maxTokens |-> [own |-> FALSE, v |-> Absent], temperature |-> [own |-> FALSE, v |-> Absent],
   model |-> [own |-> FALSE, v |-> ""]]

\* one key of {...defaultConfig, ...options}: an own key of options wins,
\* whatever its value
spread(defaultValue, option) == IF option.own THEN option.v ELSE defaultValue

\* {...defaultConfig, ...options, model: options.model || defaultConfig.model}
mergeConfig(defaultConfig, options) ==
  [apiKey |-> spread(defaultConfig.apiKey, options.apiKey),
   baseURL |-> spread(defaultConfig.baseURL, options.baseURL),
   maxTokens |-> spread(defaultConfig.maxTokens, options.maxTokens),
   temperature |-> spread(defaultConfig.temperature, options.temperature),
   model |-> IF options.model.v # "" THEN options.model.v ELSE defaultConfig.model]

VARIABLES
  build,        \* which registry is running
  caller,       \* generateWithProvider, or a caller of the registry itself
  providers,    \* the registry's Map, in insertion order
  registered,   \* every register call so far, in order
  env,          \* process.env
  stType,       \* the provider name asked for
  stOptions,    \* the options of generateWithProvider
  stPc,         \* where the caller is
  stProvider,   \* what getProvider returned
  stDefault,    \* what getDefaultConfig returned
  stConfig,     \* the merged config
  stError       \* the message of the Error thrown

startVars == <<build, caller, providers, registered, env, stType, stOptions, stPc,
               stProvider, stDefault, stConfig, stError>>

\* new LLMProviderRegistry()
StartConstructed ==
  /\ providers = registerDefaultProviders(build)
  /\ registered = defaultRegistrations(build)
  /\ stPc = "constructed"
  /\ stProvider = NoProvider
  /\ stDefault = NoConfig
  /\ stConfig = NoConfig
  /\ stError = ""

StartInit ==
  /\ build \in Builds
  /\ caller \in {"generateWithProvider", "library"}
  /\ env \in Envs
  /\ stType \in RequestedTypes
  /\ stOptions \in (IF caller = "library" THEN {NoOptions} ELSE StartOptions)
  /\ StartConstructed

StartIdle ==
  /\ build = "src"
  /\ caller = "library"
  /\ env = [v \in EnvVars |-> ""]
  /\ stType = "anthropic"
  /\ stOptions = NoOptions
  /\ StartConstructed

\* registry.register(provider), by a caller that holds the registry
RegisterProvider ==
  /\ caller = "library"
  /\ stPc = "constructed"
  /\ Len(registered) < Len(defaultRegistrations(build)) + MaxRegistrations
  /\ \E name \in {"anthropic", "gemini"} :
       LET provider == [name |-> name, id |-> Len(registered) + 1,
                        defaultModel |-> "custom-model"]
       IN  /\ providers' = register(providers, provider)
           /\ registered' = Append(registered, provider)
  /\ UNCHANGED <<build, caller, env, stType, stOptions, stPc, stProvider, stDefault,
                 stConfig, stError>>

\* registry.getProvider(providerType)
LookUpProvider ==
  /\ stPc = "constructed"
  /\ LET found == getProvider(providers, stType)
     IN  IF found.ok
         THEN /\ stProvider' = found.provider
              /\ stPc' = "provider"
              /\ stError' = stError
         ELSE /\ stError' = found.message
              /\ stPc' = "failed"
              /\ stProvider' = stProvider
  /\ UNCHANGED <<build, caller, providers, registered, env, stType, stOptions,
                 stDefault, stConfig>>

\* registry.getDefaultConfig(providerType)
BuildDefaultConfig ==
  /\ stPc = "provider"
  /\ LET default == getDefaultConfig(providers, env, stType)
     IN  IF default.ok
         THEN /\ stDefault' = default.config
              /\ stPc' = "defaults"
              /\ stError' = stError
         ELSE /\ stError' = default.message
              /\ stPc' = "failed"
              /\ stDefault' = stDefault
  /\ UNCHANGED <<build, caller, providers, registered, env, stType, stOptions,
                 stProvider, stConfig>>

\* the merge of the options into the default config, and validateConfig
MergeAndValidate ==
  /\ caller = "generateWithProvider"
  /\ stPc = "defaults"
  /\ stConfig' = mergeConfig(stDefault, stOptions)
  /\ stError' = validateConfigOf(stProvider.name, mergeConfig(stDefault, stOptions))
  /\ stPc' = IF validateConfigOf(stProvider.name, mergeConfig(stDefault, stOptions)) = ""
            THEN "validated" ELSE "failed"
  /\ UNCHANGED <<build, caller, providers, registered, env, stType, stOptions,
                 stProvider, stDefault>>

(***************************************************************************)
(* validateConfig applied to one config of one provider.                   *)
(***************************************************************************)
VARIABLES
  vProvider,   \* the provider whose validateConfig is called
  vConfig,     \* the config it is called with
  vResult      \* the message it threw, "" when it returned

validateVars == <<vProvider, vConfig, vResult>>

NotValidated == "<not validated>"

\* maxTokens: absent, -1, 0, 1 and the default
MaxTokensOptions == {Absent, Num(-1), Num(0), Num(1), Num(8000)}

\* temperature: absent, -0.0001, 0, 0.7, 2 and 2.0001
TemperatureOptions == {Absent, Num(-1), Num(0), Num(7000), Num(2 * TemperatureScale),
                       Num(2 * TemperatureScale + 1)}

ValidateConfigs == [apiKey : {"", "sk-key"}, model : {"", "model"},
                    maxTokens : MaxTokensOptions, temperature : TemperatureOptions,
                    baseURL : {"", "not a url"}]

ValidateInit ==
  /\ vProvider \in AllProviders
  /\ vConfig \in ValidateConfigs
  /\ vResult = NotValidated

ValidateIdle ==
  /\ vProvider = "anthropic"
  /\ vConfig = ValidConfig
  /\ vResult = NotValidated

\* provider.validateConfig(config)
Validate ==
  /\ vResult = NotValidated
  /\ vResult' = validateConfigOf(vProvider, vConfig)
  /\ UNCHANGED <<vProvider, vConfig>>

(***************************************************************************)
(* generateResponse: the request each provider builds from the messages    *)
(* and the config.                                                         *)
(***************************************************************************)
\* longest message list a call is given
MaxMessages == 2

Roles == {"system", "user", "assistant"}

\* the roles of the messages a call is given, in order
MessageLists == SeqsUpTo(Roles, MaxMessages)

\* BedrockProvider.getAvailableModels(): each id cut after the vendor, the
\* dot and the first word of the model name
BedrockModels ==
  {<<"anthropic", ".", "claude", "-3-7-sonnet-20250219-v1:0">>,
   <<"anthropic", ".", "claude", "-3-5-sonnet-20241022-v1:0">>,
   <<"anthropic", ".", "claude", "-3-5-haiku-20241022-v1:0">>,
   <<"anthropic", ".", "claude", "-sonnet-4-20250514-v1:0">>,
   <<"anthropic", ".", "claude", "-opus-4-20250514-v1:0">>,
   <<"anthropic", ".", "claude", "-3-haiku-20240307-v1:0">>,
   <<"anthropic", ".", "claude", "-3-sonnet-20240229-v1:0">>,
   <<"anthropic", ".", "claude", "-3-opus-20240229-v1:0">>,
   <<"amazon", ".", "titan", "-text-express-v1">>,
   <<"amazon", ".", "titan", "-text-lite-v1">>,
   <<"meta", ".", "llama", "-2-13b-chat-v1">>,
   <<"meta", ".", "llama", "-2-70b-chat-v1">>,
   <<"meta", ".", "llama", "-3-8b-instruct-v1:0">>,
   <<"meta", ".", "llama", "-3-70b-instruct-v1:0">>,
   <<"mistral", ".", "mistral", "-7b-instruct-v0:2">>,
   <<"mistral", ".", "mixtral", "-8x7b-instruct-v0:1">>,
   <<"cohere", ".", "command", "-text-v14">>,
   <<"cohere", ".", "command", "-light-text-v14">>}

\* ids of no family the provider lists
UnlistedModels == {<<"ai21", ".", "j2", "-ultra-v1">>, <<"amazon", ".", "nova", "-pro-v1:0">>}

\* the model ids a call names: Bedrock ids for Bedrock, one id elsewhere
ModelIdsOf(provider) ==
  IF provider = "bedrock" THEN BedrockModels \cup UnlistedModels ELSE {<<"model">>}

\* modelId.startsWith(prefix)
startsWith(modelId, prefix) ==
  Len(modelId) >= Len(prefix) /\ SubSeq(modelId, 1, Len(prefix)) = prefix

\* formatMessagesForModel: the payload builder picked for a model id
formatMessagesForModel(modelId) ==
  IF startsWith(modelId, <<"anthropic", ".", "claude">>) THEN "claude"
  ELSE IF startsWith(modelId, <<"amazon", ".", "titan">>) THEN "titan"
  ELSE IF startsWith(modelId, <<"meta", ".", "llama">>) THEN "llama"
  ELSE IF startsWith(modelId, <<"mistral", ".", "mistral">>) THEN "mistral"
  ELSE IF startsWith(modelId, <<"cohere", ".", "command">>) THEN "cohere"
  ELSE "claude"

\* messages.filter(msg => msg.role === 'user' || msg.role === 'assistant')
conversationOf(messages) == SelectSeq(messages, LAMBDA role : role \in {"user", "assistant"})

\* messages.find(msg => msg.role === 'system') is defined
hasSystem(messages) == \E j \in 1..Len(messages) : messages[j] = "system"

\* a plausible slip: the conversation is sent with the roles it came with
anthropicMessagesAsGiven(messages) == conversationOf(messages)

\* [...userMessages.slice(0, -1), {role: 'user', content: lastMessage.content}]
anthropicMessages(messages) ==
  Append(SubSeq(conversationOf(messages), 1, Len(conversationOf(messages)) - 1), "user")

\* config.maxTokens || 8000
maxTokensOf(config) == IF Truthy(config.maxTokens) THEN config.maxTokens.v ELSE 8000

\* config.temperature || 0.7
temperatureOf(config) ==
  IF Truthy(config.temperature) THEN config.temperature.v ELSE (7 * TemperatureScale) \div 10

NoRequest == [dialect |-> "none", maxTokens |-> Absent, temperature |-> Absent,
              system |-> "none", roles |-> <<>>]

\* the body of client.messages.create: no temperature is passed
anthropicRequest(messages, config) ==
  [dialect |-> "anthropic", maxTokens |-> Num(maxTokensOf(config)), temperature |-> Absent,
   system |-> IF hasSystem(messages) THEN "separate" ELSE "undefined",
   roles |-> anthropicMessages(messages)]

\* the body of chat.completions.create and of the Local provider's fetch:
\* every message goes into the list, the system message included
openaiRequest(messages, config) ==
  [dialect |-> "openai", maxTokens |-> Num(maxTokensOf(config)),
   temperature |-> Num(temperatureOf(config)),
   system |-> IF hasSystem(messages) THEN "inline" ELSE "undefined",
   roles |-> messages]

\* formatForClaude, formatForTitan, formatForLlama, formatForMistral and
\* formatForCohere: Titan, Llama and Cohere get one prompt string
bedrockRequest(messages, modelId, config) ==
  LET dialect == formatMessagesForModel(modelId)
  IN  [dialect |-> dialect, maxTokens |-> Num(maxTokensOf(config)),
       temperature |-> Num(temperatureOf(config)),
       system |-> IF ~hasSystem(messages) THEN "undefined"
                  ELSE IF dialect \in {"claude", "mistral"} THEN "separate" ELSE "inline",
       roles |-> IF dialect \in {"claude", "mistral"} THEN conversationOf(messages) ELSE <<>>]

\* TypeError: Cannot read properties of undefined (reading 'content')
TypeError == [isError |-> TRUE, status |-> 0, message |-> {}]

VARIABLES
  qProvider,   \* the provider generateResponse is called on
  qModelId,    \* config.model
  qConfig,     \* the config of the call
  qMessages,   \* the roles of the messages of the call
  qPc,         \* "call", then "sent" or "rejected"
  qRequest,    \* the request handed to the client
  qOutcome     \* the category of the error thrown, "" when none

requestVars == <<qProvider, qModelId, qConfig, qMessages, qPc, qRequest, qOutcome>>

RequestConfigs ==
  {[ValidConfig EXCEPT !.maxTokens = m, !.temperature = t] :
     m \in MaxTokensOptions, t \in TemperatureOptions}

RequestInit ==
  /\ qProvider \in AllProviders
  /\ qModelId \in ModelIdsOf(qProvider)
  /\ qConfig \in RequestConfigs
  /\ qMessages \in MessageLists
  /\ qPc = "call"
  /\ qRequest = NoRequest
  /\ qOutcome = ""

RequestIdle ==
  /\ qProvider = "anthropic"
  /\ qModelId = <<"model">>
  /\ qConfig = ValidConfig
  /\ qMessages = <<>>
  /\ qPc = "call"
  /\ qRequest = NoRequest
  /\ qOutcome = ""

\* AnthropicProvider.generateResponse up to client.messages.create
AnthropicGenerate ==
  /\ qPc = "call"
  /\ qProvider = "anthropic"
  /\ IF validateConfigOf(qProvider, qConfig) # ""
     THEN /\ qPc' = "rejected"
          /\ qOutcome' = handleApiError(configError(qProvider, qConfig), contextOf(qProvider))
          /\ qRequest' = qRequest
     ELSE IF conversationOf(qMessages) = <<>>
     THEN /\ qPc' = "rejected"
          /\ qOutcome' = handleApiError(TypeError, contextOf(qProvider))
          /\ qRequest' = qRequest
     ELSE /\ qPc' = "sent"
          /\ qRequest' = anthropicRequest(qMessages, qConfig)
          /\ qOutcome' = qOutcome
  /\ UNCHANGED <<qProvider, qModelId, qConfig, qMessages>>

\* OpenAIProvider.generateResponse up to client.chat.completions.create
OpenAIGenerate ==
  /\ qPc = "call"
  /\ qProvider = "openai"
  /\ IF validateConfigOf(qProvider, qConfig) # ""
     THEN /\ qPc' = "rejected"
          /\ qOutcome' = handleApiError(configError(qProvider, qConfig), contextOf(qProvider))
          /\ qRequest' = qRequest
     ELSE /\ qPc' = "sent"
          /\ qRequest' = openaiRequest(qMessages, qConfig)
          /\ qOutcome' = qOutcome
  /\ UNCHANGED <<qProvider, qModelId, qConfig, qMessages>>

\* LocalProvider.generateResponse up to fetch
LocalGenerate ==
  /\ qPc = "call"
  /\ qProvider = "local"
  /\ IF validateConfigOf(qProvider, qConfig) # ""
     THEN /\ qPc' = "rejected"
          /\ qOutcome' = handleApiError(configError(qProvider, qConfig), contextOf(qProvider))
          /\ qRequest' = qRequest
     ELSE /\ qPc' = "sent"
          /\ qRequest' = openaiRequest(qMessages, qConfig)
          /\ qOutcome' = qOutcome
  /\ UNCHANGED <<qProvider, qModelId, qConfig, qMessages>>

\* BedrockProvider.generateResponse up to client.send: validateConfig is
\* called outside the try block and its Error propagates as thrown
BedrockGenerate ==
  /\ qPc = "call"
  /\ qProvider = "bedrock"
  /\ IF validateConfigOf(qProvider, qConfig) # ""
     THEN /\ qPc' = "rejected"
          /\ qOutcome' = validateConfigOf(qProvider, qConfig)
          /\ qRequest' = qRequest
     ELSE /\ qPc' = "sent"
          /\ qRequest' = bedrockRequest(qMessages, qModelId, qConfig)
          /\ qOutcome' = qOutcome
  /\ UNCHANGED <<qProvider, qModelId, qConfig, qMessages>>

(***************************************************************************)
(* sanitizeText and the head of chunkIterator that counts the tokens.      *)
(***************************************************************************)
\* longest text handed to the sanitizer, in symbols
MaxText == 6

\* a text is a sequence of symbols: the two halves of a marker's brackets,
\* the marker names, the null byte, U+FFFD and a blank
MarkerEndOfText == <<"<|", "endoftext", "|>">>

MarkerEnd == <<"<|", "end", "|>">>

MarkerStart == <<"<|", "start", "|>">>

NullByte == <<"NUL">>

ReplacementChar == <<"U+FFFD">>

\* the texts handed to the sanitizer: all short texts over a few symbols,
\* and some texts with the other markers
SanitizeTexts ==
  SeqsUpTo({"<|", "end", "|>", "NUL", " "}, MaxText)
    \cup {MarkerEndOfText, MarkerStart, ReplacementChar,
          <<"<|", "end", "<|", "start", "|>", "|>">>,
          <<"<|", "endoftext", "U+FFFD", "|>">>,
          <<" ", "<|", "start", "|>", "end", "<|", "endoftext", "|>", "U+FFFD", " ">>}

\* text.replace(/pattern/g, ''): every match is removed, left to right, and
\* the search goes on after the match
RECURSIVE removeAll(_, _)
removeAll(text, pattern) ==
  IF Len(text) < Len(pattern) THEN text
  ELSE IF SubSeq(text, 1, Len(pattern)) = pattern
  THEN removeAll(SubSeq(text, Len(pattern) + 1, Len(text)), pattern)
  ELSE <<Head(text)>> \o removeAll(Tail(text), pattern)

\* sanitizeText(text): five replace passes, one after the other, then trim
sanitizeText(text) ==
  trim(removeAll(removeAll(removeAll(removeAll(removeAll(text,
    MarkerEndOfText), MarkerEnd), MarkerStart), NullByte), ReplacementChar))

\* encoding.encode(text): one token for each symbol
encode(text) ==
  [j \in 1..Len(text) |->
     CASE text[j] = "<|" -> 1
       [] text[j] = "|>" -> 2
       [] text[j] = "end" -> 3
       [] text[j] = "endoftext" -> 4
       [] text[j] = "start" -> 5
       [] text[j] = "NUL" -> 6
       [] text[j] = "U+FFFD" -> 7
       [] OTHER -> 8]

\* const costPerToken = 3e-6, counted in millionths of a dollar
costPerToken == 3

VARIABLES
  sText,        \* the text chunkIterator is given
  sPc,          \* "start", "counted", "again"
  sSanitized,   \* sanitizedText
  sTokens,      \* tokens
  sCost,        \* estimatedCost, in millionths of a dollar
  sAgain        \* the sanitized text put through sanitizeText once more

sanitizeVars == <<sText, sPc, sSanitized, sTokens, sCost, sAgain>>

SanitizeInit ==
  /\ sText \in SanitizeTexts
  /\ sPc = "start"
  /\ sSanitized = <<>>
  /\ sTokens = <<>>
  /\ sCost = 0
  /\ sAgain = <<>>

SanitizeIdle ==
  /\ sText = <<>>
  /\ sPc = "start"
  /\ sSanitized = <<>>
  /\ sTokens = <<>>
  /\ sCost = 0
  /\ sAgain = <<>>

\* chunkIterator from its entry to the cost estimate
Sanitize ==
  /\ sPc = "start"
  /\ sSanitized' = sanitizeText(sText)
  /\ sTokens' = encode(sanitizeText(sText))
  /\ sCost' = Len(encode(sanitizeText(sText))) * costPerToken
  /\ sPc' = "counted"
  /\ UNCHANGED <<sText, sAgain>>

\* sanitizeText applied to its own result
SanitizeAgain ==
  /\ sPc = "counted"
  /\ sAgain' = sanitizeText(sSanitized)
  /\ sPc' = "again"
  /\ UNCHANGED <<sText, sSanitized, sTokens, sCost>>

(***************************************************************************)
(* chunkIterator's loop for every chunk size the command line can pass.    *)
(***************************************************************************)
\* parseInt(options.chunkSize): a positive or a negative number; 0 stands
\* for the falsy values 0 and NaN
ChunkerSizes == (0 - MaxChunkSize)..MaxChunkSize

\* the model follows the loop for at most this many chunks
MaxYields == MaxTokens + 2

VARIABLES
  kTokens,      \* tokens
  kChunkSize,   \* the chunkSize argument
  kPc,          \* "start", "iter", "returned"
  kI,           \* i
  kIndex,       \* chunkIndex
  kTotal,       \* totalChunks
  kOffsets,     \* the value of i at each yield
  kYielded      \* the token slices yielded

chunkerVars == <<kTokens, kChunkSize, kPc, kI, kIndex, kTotal, kOffsets, kYielded>>

ChunkerInit ==
  /\ \E n \in 0..MaxTokens : kTokens = [k \in 1..n |-> k]
  /\ kChunkSize \in ChunkerSizes
  /\ kPc = "start"
  /\ kI = 0
  /\ kIndex = 0
  /\ kTotal = 0
  /\ kOffsets = <<>>
  /\ kYielded = <<>>

ChunkerIdle ==
  /\ kTokens = <<>>
  /\ kChunkSize = 0
  /\ kPc = "start"
  /\ kI = 0
  /\ kIndex = 0
  /\ kTotal = 0
  /\ kOffsets = <<>>
  /\ kYielded = <<>>

\* chunkIterator up to the loop, the question answered with yes
ChunkerStart ==
  /\ kPc = "start"
  /\ kTotal' = calculateChunkCount(Len(kTokens), cSizeOf(kChunkSize))
  /\ kPc' = "iter"
  /\ UNCHANGED <<kTokens, kChunkSize, kI, kIndex, kOffsets, kYielded>>

\* one turn of the while loop
ChunkerYield ==
  /\ kPc = "iter"
  /\ kI < Len(kTokens)
  /\ kIndex < MaxYields
  /\ kYielded' = Append(kYielded, chunkSlice(kTokens, kI, cSizeOf(kChunkSize)))
  /\ kOffsets' = Append(kOffsets, kI)
  /\ kI' = nextOffset(kI, cSizeOf(kChunkSize))
  /\ kIndex' = kIndex + 1
  /\ UNCHANGED <<kTokens, kChunkSize, kPc, kTotal>>

\* the loop condition fails and the generator returns
ChunkerReturn ==
  /\ kPc = "iter"
  /\ ~(kI < Len(kTokens))
  /\ kPc' = "returned"
  /\ UNCHANGED <<kTokens, kChunkSize, kI, kIndex, kTotal, kOffsets, kYielded>>

(***************************************************************************)
(* The client each provider instance sends its requests through.           *)
(***************************************************************************)
\* most calls made on one provider instance
MaxCalls == 2

\* the parts of a config a client is built from
ClientConfigs ==
  [apiKey : {"sk-a", "sk-b"}, baseURL : {"", "http://host:8080/v1"},
   region : {"", "eu-west-1"}]

\* private client: Anthropic | null = null
NoClient == [apiKey |-> "<null>", baseURL |-> "<null>", region |-> "<null>"]

\* the client the provider's constructor call builds from a config: new
\* Anthropic({apiKey}), new OpenAI({apiKey, baseURL}), new
\* BedrockRuntimeClient({region}); the Local provider has no client and
\* fetches from config.baseURL with config.apiKey as the bearer token
newClient(provider, config) ==
  CASE provider = "anthropic" ->
         [apiKey |-> config.apiKey, baseURL |-> "", region |-> ""]
    [] provider = "openai" ->
         [apiKey |-> config.apiKey, baseURL |-> config.baseURL, region |-> ""]
    [] provider = "bedrock" ->
         [apiKey |-> "", baseURL |-> "",
          region |-> IF config.region = "" THEN "us-east-1" ELSE config.region]
    [] OTHER ->
         [apiKey |-> config.apiKey,
          baseURL |-> IF config.baseURL = "" THEN "http://localhost:11434/v1"
                      ELSE config.baseURL,
          region |-> ""]

\* initializeClient: if (!this.client) this.client = new ...; return this.client
initializeClient(provider, client, config) ==
  IF client = NoClient THEN newClient(provider, config) ELSE client

VARIABLES
  cProvider,   \* the provider instance
  cClient,     \* its client field
  cConfigs,    \* the config of each generateResponse call, in order
  cUsed        \* the client each call sent its request through

clientVars == <<cProvider, cClient, cConfigs, cUsed>>

ClientInit ==
  /\ cProvider \in AllProviders
  /\ cClient = NoClient
  /\ cConfigs = <<>>
  /\ cUsed = <<>>

ClientIdle ==
  /\ cProvider = "anthropic"
  /\ cClient = NoClient
  /\ cConfigs = <<>>
  /\ cUsed = <<>>

\* one generateResponse call, up to the request
ClientCall ==
  /\ Len(cConfigs) < MaxCalls
  /\ \E config \in ClientConfigs :
       /\ cConfigs' = Append(cConfigs, config)
       /\ IF cProvider = "local"
          THEN /\ cUsed' = Append(cUsed, newClient(cProvider, config))
               /\ cClient' = cClient
          ELSE /\ cClient' = initializeClient(cProvider, cClient, config)
               /\ cUsed' = Append(cUsed, initializeClient(cProvider, cClient, config))
  /\ UNCHANGED cProvider

vars == <<exVars, runVars, retryVars, validateVars, startVars, requestVars,
         sanitizeVars, chunkerVars, clientVars>>

InitValidate ==
  ValidateInit /\ ExIdle /\ RunIdle /\ RetryIdle /\ StartIdle /\ RequestIdle
  /\ SanitizeIdle /\ ChunkerIdle /\ ClientIdle

NextValidate ==
  Validate /\ UNCHANGED <<exVars, runVars, retryVars, startVars, requestVars,
    sanitizeVars, chunkerVars, clientVars>>

SpecValidate == InitValidate /\ [][NextValidate]_vars

InitStart ==
  StartInit /\ ExIdle /\ RunIdle /\ RetryIdle /\ ValidateIdle /\ RequestIdle
  /\ SanitizeIdle /\ ChunkerIdle /\ ClientIdle

NextStart ==
  \/ RegisterProvider
     /\ UNCHANGED <<exVars, runVars, retryVars, validateVars, requestVars,
                  sanitizeVars, chunkerVars, clientVars>>
  \/ LookUpProvider
     /\ UNCHANGED <<exVars, runVars, retryVars, validateVars, requestVars,
                  sanitizeVars, chunkerVars, clientVars>>
  \/ BuildDefaultConfig
     /\ UNCHANGED <<exVars, runVars, retryVars, validateVars, requestVars,
                  sanitizeVars, chunkerVars, clientVars>>
  \/ MergeAndValidate
     /\ UNCHANGED <<exVars, runVars, retryVars, validateVars, requestVars,
                  sanitizeVars, chunkerVars, clientVars>>

SpecStart == InitStart /\ [][NextStart]_vars

InitExtract ==
  ExInit /\ RunIdle /\ RetryIdle /\ ValidateIdle /\ StartIdle /\ RequestIdle
  /\ SanitizeIdle /\ ChunkerIdle /\ ClientIdle

NextExtract ==
  ExtractFinal /\ UNCHANGED <<runVars, retryVars, validateVars, startVars, requestVars,
    sanitizeVars, chunkerVars, clientVars>>

SpecExtract == InitExtract /\ [][NextExtract]_vars

InitRetry ==
  RetryInit /\ ExIdle /\ RunIdle /\ ValidateIdle /\ StartIdle /\ RequestIdle
  /\ SanitizeIdle /\ ChunkerIdle /\ ClientIdle

NextRetry ==
  \/ ConfigRejected
     /\ UNCHANGED <<exVars, runVars, validateVars, startVars, requestVars,
                  sanitizeVars, chunkerVars, clientVars>>
  \/ SendRequest
     /\ UNCHANGED <<exVars, runVars, validateVars, startVars, requestVars,
                  sanitizeVars, chunkerVars, clientVars>>
  \/ ResponseArrives
     /\ UNCHANGED <<exVars, runVars, validateVars, startVars, requestVars,
                  sanitizeVars, chunkerVars, clientVars>>
  \/ RequestFails
     /\ UNCHANGED <<exVars, runVars, validateVars, startVars, requestVars,
                  sanitizeVars, chunkerVars, clientVars>>
  \/ BackoffElapsed
     /\ UNCHANGED <<exVars, runVars, validateVars, startVars, requestVars,
                  sanitizeVars, chunkerVars, clientVars>>

SpecRetry == InitRetry /\ [][NextRetry]_vars

InitRequest ==
  RequestInit /\ ExIdle /\ RunIdle /\ RetryIdle /\ ValidateIdle /\ StartIdle
  /\ SanitizeIdle /\ ChunkerIdle /\ ClientIdle

NextRequest ==
  \/ AnthropicGenerate
     /\ UNCHANGED <<exVars, runVars, retryVars, validateVars, startVars,
                  sanitizeVars, chunkerVars, clientVars>>
  \/ OpenAIGenerate
     /\ UNCHANGED <<exVars, runVars, retryVars, validateVars, startVars,
                  sanitizeVars, chunkerVars, clientVars>>
  \/ LocalGenerate
     /\ UNCHANGED <<exVars, runVars, retryVars, validateVars, startVars,
                  sanitizeVars, chunkerVars, clientVars>>
  \/ BedrockGenerate
     /\ UNCHANGED <<exVars, runVars, retryVars, validateVars, startVars,
                  sanitizeVars, chunkerVars, clientVars>>

SpecRequest == InitRequest /\ [][NextRequest]_vars

InitSanitize ==
  SanitizeInit /\ ExIdle /\ RunIdle /\ RetryIdle /\ ValidateIdle /\ StartIdle
  /\ RequestIdle /\ ChunkerIdle /\ ClientIdle

NextSanitize ==
  \/ Sanitize
     /\ UNCHANGED <<exVars, runVars, retryVars, validateVars, startVars,
                  requestVars, chunkerVars, clientVars>>
  \/ SanitizeAgain
     /\ UNCHANGED <<exVars, runVars, retryVars, validateVars, startVars,
                  requestVars, chunkerVars, clientVars>>

SpecSanitize == InitSanitize /\ [][NextSanitize]_vars

InitChunker ==
  ChunkerInit /\ ExIdle /\ RunIdle /\ RetryIdle /\ ValidateIdle /\ StartIdle
  /\ RequestIdle /\ SanitizeIdle /\ ClientIdle

NextChunker ==
  \/ ChunkerStart
     /\ UNCHANGED <<exVars, runVars, retryVars, validateVars, startVars,
                  requestVars, sanitizeVars, clientVars>>
  \/ ChunkerYield
     /\ UNCHANGED <<exVars, runVars, retryVars, validateVars, startVars,
                  requestVars, sanitizeVars, clientVars>>
  \/ ChunkerReturn
     /\ UNCHANGED <<exVars, runVars, retryVars, validateVars, startVars,
                  requestVars, sanitizeVars, clientVars>>

SpecChunker == InitChunker /\ [][NextChunker]_vars

InitClient ==
  ClientInit /\ ExIdle /\ RunIdle /\ RetryIdle /\ ValidateIdle /\ StartIdle
  /\ RequestIdle /\ SanitizeIdle /\ ChunkerIdle

NextClient ==
  ClientCall /\ UNCHANGED <<exVars, runVars, retryVars, validateVars, startVars,
    requestVars, sanitizeVars, chunkerVars>>

SpecClient == InitClient /\ [][NextClient]_vars

Init ==
  RunInit /\ ExIdle /\ RetryIdle /\ ValidateIdle /\ StartIdle /\ RequestIdle
  /\ SanitizeIdle /\ ChunkerIdle /\ ClientIdle

Next ==
  \/ Confirm
     /\ UNCHANGED <<exVars, retryVars, validateVars, startVars, requestVars,
                  sanitizeVars, chunkerVars, clientVars>>
  \/ ProcessChunk
     /\ UNCHANGED <<exVars, retryVars, validateVars, startVars, requestVars,
                  sanitizeVars, chunkerVars, clientVars>>
  \/ ProviderReturns
     /\ UNCHANGED <<exVars, retryVars, validateVars, startVars, requestVars,
                  sanitizeVars, chunkerVars, clientVars>>
  \/ ProviderThrows
     /\ UNCHANGED <<exVars, retryVars, validateVars, startVars, requestVars,
                  sanitizeVars, chunkerVars, clientVars>>
  \/ DelayElapsed
     /\ UNCHANGED <<exVars, retryVars, validateVars, startVars, requestVars,
                  sanitizeVars, chunkerVars, clientVars>>
  \/ Finish
     /\ UNCHANGED <<exVars, retryVars, validateVars, startVars, requestVars,
                  sanitizeVars, chunkerVars, clientVars>>

Spec == Init /\ [][Next]_vars

(***************************************************************************)
(* Helpers of the properties.                                              *)
(***************************************************************************)
\* the delimiter tag of each dialect, as the delimiter contract lists them
DialectTag == [cursor |-> "cursorrules", cline |-> "clinerules", roo |-> "roomodes"]

\* text holds an opening tag followed, somewhere later, by a closing tag
HasPair(text, tagName) ==
  \E p \in 1..Len(text) : \E q \in (p + 1)..Len(text) :
    text[p] = OpenTag(tagName) /\ text[q] = CloseTag(tagName)

\* what an update prompt shows between <current_rules> and </current_rules>
DraftIn(user) ==
  LET from == Min({p \in 1..Len(user) : user[p] = "<current_rules>"})
      to == Max({p \in 1..Len(user) : user[p] = "</current_rules>"})
  IN  SubSeq(user, from + 1, to - 1)

\* the prompt asks for its final content inside tagSymbol
AsksFor(user, tagSymbol) ==
  \E p \in 1..(Len(user) - 2) :
    /\ user[p] \in {"Include your final content inside",
                    "Include your final updated content inside"}
    /\ user[p + 1] = tagSymbol
    /\ user[p + 2] = "tags."

RECURSIVE Flatten(_)
Flatten(seqs) == IF seqs = <<>> THEN <<>> ELSE Head(seqs) \o Flatten(Tail(seqs))

RECURSIVE SumTokenCounts(_)
SumTokenCounts(chunks) ==
  IF chunks = <<>> THEN 0 ELSE Head(chunks).tokenCount + SumTokenCounts(Tail(chunks))

\* the chunk generator has returned
Exhausted == (pc = "iter" /\ ~(i < Len(tokens))) \/ Len(extractInputs) > 0

Ended == pc \in {"done", "failed"}

(***************************************************************************)
(* C1: the user prompt built for chunk i+1 holds, verbatim and whole, the  *)
(* content the provider returned for chunk i: what the update prompt shows *)
(* as the current rules is exactly that response.                          *)
(***************************************************************************)
C1_NextPromptCarriesPreviousResponse ==
  \A j \in 1..Len(prompts) :
    prompts[j].index > 0 =>
      LET previous == responses[prompts[j].index]
      IN  /\ Contains(prompts[j].user,
                      <<"<current_rules>">> \o previous \o <<"</current_rules>">>)
          /\ DraftIn(prompts[j].user) = previous

\* the third prompt of a run whose first two responses differ, the second one
\* a tagged draft with prose around it
C1_Witness ==
  /\ Len(prompts) = 3
  /\ responses[1] # responses[2]
  /\ HasPair(responses[2], tagNameOf(outputFormat))
  /\ extractContent(responses[2], outputFormat).value # responses[2]

C3_FirstPairTrimmed ==
  LET tagName == tagNameOf(exFormat)
      opens == {p \in 1..Len(exText) : exText[p] = OpenTag(tagName)}
      first == Min(opens)
      close == Min({q \in (first + 1)..Len(exText) : exText[q] = CloseTag(tagName)})
      inner == SubSeq(exText, first + 1, close - 1)
      v == exOutcome.value
  IN  (exOutcome.kind # "none" /\ HasPair(exText, tagName)) =>
        /\ exOutcome.kind = "value"
        /\ \E lead \in 0..Len(inner) :
             /\ lead + Len(v) <= Len(inner)
             /\ SubSeq(inner, lead + 1, lead + Len(v)) = v
             /\ \A p \in 1..Len(inner) :
                  (p <= lead \/ p > lead + Len(v)) => inner[p] \in Whitespace
        /\ v # <<>> => (v[1] \notin Whitespace /\ v[Len(v)] \notin Whitespace)
        /\ exText = ExampleText(exFormat) => v = <<"BODY">>

\* the example text, extracted
C3_Witness ==
  /\ exText = ExampleText("cursor")
  /\ exFormat = "cursor"
  /\ exOutcome.kind = "value"
  /\ exOutcome.value = <<"BODY">>

(***************************************************************************)
(* C4: for cursor, cline and roo, a run whose final draft has no tag pair  *)
(* of the dialect ends in an error naming cursorrules, clinerules or       *)
(* roomodes respectively, returns nothing and writes no rules file; the    *)
(* tag named is the one every prompt of the run asked for.                 *)
(***************************************************************************)
C4_MissingTagIsFatalAndNamed ==
  outputFormat \in Dialects =>
    /\ (Len(extractInputs) = 1 /\ ~HasPair(extractInputs[1], DialectTag[outputFormat])) =>
         /\ pc = "failed"
         /\ error.kind = "extraction"
         /\ error.tag = OpenTag(DialectTag[outputFormat])
         /\ result.kind = "none"
         /\ ~finalFile.written
    /\ error.kind = "extraction" =>
         \A j \in 1..Len(prompts) : AsksFor(prompts[j].user, error.tag)

\* a roo run of two chunks whose last response was wrapped in another
\* dialect's tags
C4_Witness ==
  /\ outputFormat = "roo"
  /\ error.kind = "extraction"
  /\ Len(prompts) = 2
  /\ responses[2] = <<OpenTag("cursorrules"), "BODY", CloseTag("cursorrules")>>

(***************************************************************************)
(* C5: the creation prompt is built exactly for index 0 and the update     *)
(* prompt exactly for the later indexes; a run whose input fits in one     *)
(* chunk makes exactly one provider call, with a creation prompt, and its  *)
(* result is the extracted content of that one response.                   *)
(***************************************************************************)
C5_SingleChunkOneCreateCall ==
  /\ \A j \in 1..Len(prompts) :
       /\ prompts[j].kind = "create" <=> prompts[j].index = 0
       /\ prompts[j].kind = "update" <=> prompts[j].index > 0
  /\ (Ended /\ Len(tokens) <= cSize) =>
       /\ Len(calls) = 1
       /\ Len(prompts) = 1
       /\ prompts[1].kind = "create"
       /\ pc = "done" => result = extractContent(responses[1], outputFormat)

(***************************************************************************)
(* C6: provider calls are issued for the indexes 0, 1, 2, ... in that      *)
(* order, never more than one outstanding; a call is issued only when the  *)
(* previous one has returned and the draft holds its response; the draft   *)
(* changes only when a provider call returns, to that call's response.     *)
(***************************************************************************)
C6_State ==
  /\ Cardinality(outstanding) <= 1
  /\ \A j \in 1..Len(calls) : calls[j] = j - 1
  /\ pc = "calling" => (outstanding = {Len(calls) - 1} /\ Len(responses) = Len(calls) - 1)
  /\ pc # "calling" => outstanding = {}

C6_Step ==
  /\ calls' # calls =>
       /\ outstanding = {}
       /\ Len(responses) = Len(calls)
       /\ calls # <<>> => currentSummary = responses[Len(responses)]
  /\ currentSummary' # currentSummary =>
       /\ pc = "calling"
       /\ Len(responses') = Len(responses) + 1
       /\ currentSummary' = responses'[Len(responses')]

C6_SequentialSingleOutstanding == []C6_State /\ [][C6_Step]_vars

\* the third call of a run is outstanding, the first two have returned
C6_Witness ==
  /\ pc = "calling"
  /\ calls = <<0, 1, 2>>
  /\ Len(responses) = 2
  /\ currentSummary = responses[2]

(***************************************************************************)
(* C7: when the provider call for chunk k throws, the run is over: the     *)
(* error carries the chunk number k+1 and the provider's display name, no  *)
(* later call is issued, nothing is returned, no rules file is written,    *)
(* and the intermediate files of the chunks before k stay.                 *)
(***************************************************************************)
C7_State ==
  error.kind = "provider" =>
    /\ pc = "failed"
    /\ error.chunk = Len(calls)
    /\ calls[Len(calls)] = error.chunk - 1
    /\ \A j \in 1..Len(calls) : calls[j] <= error.chunk - 1
    /\ error.provider = displayNameOf(providerType)
    /\ error.provider \in {"Anthropic Claude", "OpenAI", "Local (OpenAI-compatible)"}
    /\ result.kind = "none"
    /\ ~finalFile.written
    /\ extractInputs = <<>>
    /\ files = {[n |-> m, of |-> totalChunks] : m \in 1..(error.chunk - 1)}

C7_Step ==
  pc = "failed" => (calls' = calls /\ result' = result /\ finalFile' = finalFile
                    /\ files' = files /\ pc' = pc)

C7_ChunkFailureAborts == []C7_State /\ [][C7_Step]_vars

\* the call for the second of three or more chunks threw
C7_Witness ==
  /\ error.kind = "provider"
  /\ error.chunk = 2
  /\ totalChunks >= 3
  /\ files = {[n |-> 1, of |-> totalChunks]}

(***************************************************************************)
(* C10: the chunks yielded, in order, are consecutive ranges of the token  *)
(* sequence starting at its first token, with no gap and no overlap; once  *)
(* the generator is exhausted they make up the whole sequence and their    *)
(* tokenCount values add up to totalTokens.                                *)
(***************************************************************************)
C10_ChunksPartitionTokens ==
  /\ \A j \in 1..Len(yielded) :
       /\ yielded[j].tokenCount = Len(yieldedTokens[j])
       /\ yielded[j].chunk = decode(yieldedTokens[j])
  /\ SumTokenCounts(yielded) <= Len(tokens)
  /\ Flatten(yieldedTokens) = SubSeq(tokens, 1, SumTokenCounts(yielded))
  /\ Exhausted =>
       /\ Flatten(yieldedTokens) = tokens
       /\ SumTokenCounts(yielded) = Len(tokens)

\* an exhausted generator that yielded a full chunk and a shorter last one
C10_Witness ==
  /\ Exhausted
  /\ Len(yielded) >= 2
  /\ yielded[Len(yielded)].tokenCount < yielded[1].tokenCount
  /\ yielded[1].tokenCount > 1

(***************************************************************************)
(* C8: in the Anthropic provider an attempt that fails with a rate-limit   *)
(* signal (status 429, or a message saying 'rate limit') is followed by    *)
(* another attempt, up to 4 attempts in all; the waits before the 2nd, 3rd *)
(* and 4th attempt are 2000, 4000 and 8000 ms; two rate-limited attempts   *)
(* and a success return the result after waits of 2000 then 4000 ms; a 4th *)
(* rate-limited attempt ends the call with no further wait.                *)
(***************************************************************************)
RateLimited(entry) == ~entry.ok /\ (entry.status429 \/ entry.saysRateLimit)

ExpectedWaits == <<2000, 4000, 8000>>

C8_RateLimitBackoff ==
  rProvider = "anthropic" =>
    LET n == Len(rLog)
        waited == {k \in 1..n : k <= 3 /\ RateLimited(rLog[k])}
    IN  /\ n <= 4
        /\ rRequests <= 4
        /\ rWaits = SubSeq(ExpectedWaits, 1, Cardinality(waited))
        /\ (n > 0 /\ n < 4 /\ RateLimited(rLog[n])) => rPc \in {"backoff", "attempt", "inflight"}
        /\ (n = 4 /\ RateLimited(rLog[4])) => (rPc = "thrown" /\ rWaits = ExpectedWaits)
        /\ (n = 3 /\ RateLimited(rLog[1]) /\ RateLimited(rLog[2]) /\ rLog[3].ok) =>
             (rOutcome.kind = "returned" /\ rWaits = <<2000, 4000>>)

\* rate-limited twice, once by status and once by message, then a success
C8_Witness ==
  /\ rProvider = "anthropic"
  /\ rPc = "returned"
  /\ Len(rLog) = 3
  /\ rLog[1].status429
  /\ rLog[2].saysRateLimit /\ ~rLog[2].status429
  /\ rWaits = <<2000, 4000>>

ExpectedChunks(n, c) ==
  IF n <= c THEN 1 ELSE CHOOSE k \in 1..n : (k - 1) * c < n /\ n <= k * c

C11_TotalChunksIsCeiling ==
  /\ calculateChunkCount(250000, 100000) = 3
  /\ cSize > 0
  /\ pc \notin {"confirm", "exited"} => totalChunks = ExpectedChunks(Len(tokens), cSize)
  /\ \A j \in 1..Len(yielded) :
       yielded[j].totalChunks = ExpectedChunks(Len(tokens), cSize)

\* a chunk reported as one of two, the chunk size dividing the total
C11_Witness ==
  /\ Len(yielded) >= 1
  /\ yielded[1].totalChunks = 2
  /\ Len(tokens) = 2 * cSize

(***************************************************************************)
(* C12: an input that is empty once sanitized, zero tokens, yields exactly *)
(* one chunk, with empty text, index 0 and totalChunks 1, so the run makes *)
(* exactly one provider call, with the creation prompt, before extraction. *)
(***************************************************************************)
C12_EmptyInputYieldsOneEmptyChunk ==
  (tokens = <<>> /\ Exhausted) =>
    /\ yielded = <<[chunk |-> <<>>, index |-> 0, tokenCount |-> 0, totalChunks |-> 1]>>
    /\ Len(calls) = 1
    /\ Len(prompts) = 1
    /\ prompts[1].kind = "create"

(***************************************************************************)
(* C13: the question is asked once, before the first chunk is yielded, and *)
(* never again; when the answer is anything other than y or yes, in any    *)
(* case, the process exits with status 0 with no chunk yielded, no         *)
(* provider call made, no intermediate file and no rules file written.     *)
(***************************************************************************)
Approvals == {"y", "Y", "yes", "YES"}

C13_State ==
  /\ \A a \in TypedAnswers : proceedOf(a) <=> a \in Approvals
  /\ asked <= 1
  /\ Len(yielded) > 0 => (asked = 1 /\ answer \in Approvals)
  /\ (asked = 1 /\ answer \notin Approvals) =>
       /\ pc = "exited"
       /\ exitCodes = <<0>>
       /\ yielded = <<>>
       /\ calls = <<>>
       /\ files = {}
       /\ finalFile = NoFile
  /\ exitCodes # <<>> => answer \notin Approvals

C13_Step ==
  asked' # asked => (asked = 0 /\ yielded = <<>> /\ calls = <<>>)

C13_ConfirmOnceBeforeChunks == []C13_State /\ [][C13_Step]_vars

\* a run over several chunks' worth of input cancelled with an empty answer
C13_Witness ==
  /\ pc = "exited"
  /\ answer = ""
  /\ Len(tokens) > cSize

(***************************************************************************)
(* C14: a successful run over n chunks pauses n-1 times, once after each   *)
(* chunk but the last, after that chunk's response is stored and before    *)
(* the next call; each pause lasts the chunkDelay the caller supplied, and *)
(* 5000 ms only when the caller supplied none.                             *)
(***************************************************************************)
C14_PausesBetweenChunks ==
  /\ pc = "done" => Len(delays) = Len(yielded) - 1
  /\ pc = "delay" =>
       /\ Len(delays) = Len(responses)
       /\ Len(calls) = Len(responses)
       /\ outstanding = {}
       /\ nextOffset(i, cSize) < Len(tokens)
  /\ Len(delays) <= Len(responses)
  /\ \A j \in 1..Len(delays) :
       delays[j] = IF chunkDelay.set THEN chunkDelay.v ELSE 5000


(***************************************************************************)
(* C16: validateConfig rejects every config whose maxTokens is 0 or less,  *)
(* maxTokens = 0 included, with 'maxTokens must be a positive number', and *)
(* accepts maxTokens = 1.                                                  *)
(***************************************************************************)
\* the checks validateConfig makes before it looks at maxTokens pass
KeyAndModelPass(provider, config) ==
  /\ requiresApiKeyOf(provider) => config.apiKey # ""
  /\ config.model # ""

C16_NonPositiveMaxTokensRejected ==
  vResult # NotValidated =>
    /\ (vConfig.maxTokens.set /\ vConfig.maxTokens.v <= 0) =>
         /\ vResult # ""
         /\ KeyAndModelPass(vProvider, vConfig) =>
              vResult = "maxTokens must be a positive number"
    /\ vConfig.maxTokens = Num(1) => vResult # "maxTokens must be a positive number"

(***************************************************************************)
(* C17: validateConfig accepts a temperature of exactly 0, of exactly 2    *)
(* and everything between, and rejects every temperature below 0 or above  *)
(* 2, such as -0.0001 and 2.0001, with 'temperature must be between 0 and  *)
(* 2'.                                                                     *)
(***************************************************************************)
TemperatureInRange(config) ==
  config.temperature.set
  /\ 0 <= config.temperature.v /\ config.temperature.v <= 2 * TemperatureScale

\* every check validateConfig makes but the one of the temperature passes
OtherChecksPass(provider, config) ==
  /\ KeyAndModelPass(provider, config)
  /\ config.maxTokens.set => config.maxTokens.v > 0
  /\ provider = "local" => config.baseURL = ""

C17_TemperatureRangeInclusive ==
  (vResult # NotValidated /\ vConfig.temperature.set) =>
    IF TemperatureInRange(vConfig)
    THEN /\ vResult # "temperature must be between 0 and 2"
         /\ OtherChecksPass(vProvider, vConfig) => vResult = ""
    ELSE /\ vResult # ""
         /\ OtherChecksPass(vProvider, vConfig) =>
              vResult = "temperature must be between 0 and 2"

\* a config whose temperature is exactly 2 was accepted
C17_Witness ==
  /\ vResult = ""
  /\ vConfig.temperature = Num(2 * TemperatureScale)

(***************************************************************************)
(* C15: generateResponse calls validateConfig before it sends a request,   *)
(* so a config without a model, without an API key on a provider that      *)
(* requires one (Anthropic, OpenAI; not Local, not Bedrock), or with        *)
(* maxTokens or temperature out of range fails with no request sent.       *)
(***************************************************************************)
InvalidConfig(provider, config) ==
  \/ config.model = ""
  \/ requiresApiKeyOf(provider) /\ config.apiKey = ""
  \/ config.maxTokens.set /\ config.maxTokens.v <= 0
  \/ config.temperature.set
     /\ (config.temperature.v < 0 \/ config.temperature.v > 2 * TemperatureScale)

C15_InvalidConfigSendsNoRequest ==
  InvalidConfig(rProvider, rConfig) =>
    /\ rRequests = 0
    /\ rPc \in {"attempt", "thrown"}
    /\ rOutcome.kind # "returned"


(***************************************************************************)
(* C18: the effective config is the provider's default config overridden   *)
(* only by the values the caller actually supplied: with no API key        *)
(* supplied (the option absent, or undefined as the orchestrator passes it *)
(* when no --api-key is given) the key of the environment is used, and a   *)
(* supplied key wins; the same for baseURL, maxTokens and temperature.     *)
(***************************************************************************)
SuppliedText(option) == option.own /\ option.v # ""

SuppliedNumber(option) == option.own /\ option.v.set

EnvVarOf == [anthropic |-> "ANTHROPIC_API_KEY", openai |-> "OPENAI_API_KEY",
             local |-> "LOCAL_API_KEY"]

C18_OnlySuppliedValuesOverride ==
  stConfig # NoConfig =>
    /\ stConfig.apiKey = IF SuppliedText(stOptions.apiKey) THEN stOptions.apiKey.v
                         ELSE env[EnvVarOf[stType]]
    /\ stConfig.baseURL = IF SuppliedText(stOptions.baseURL) THEN stOptions.baseURL.v
                          ELSE stDefault.baseURL
    /\ stConfig.maxTokens = IF SuppliedNumber(stOptions.maxTokens)
                            THEN stOptions.maxTokens.v ELSE Num(8000)
    /\ stConfig.temperature = IF SuppliedNumber(stOptions.temperature)
                              THEN stOptions.temperature.v
                              ELSE Num((7 * TemperatureScale) \div 10)

(***************************************************************************)
(* C19: for every provider name the registry registers (anthropic, openai, *)
(* local and, in the build that registers it, bedrock) getDefaultConfig    *)
(* returns a default config (the provider's default model, maxTokens 8000, *)
(* temperature 0.7, the API key of the environment) rather than failing.   *)
(***************************************************************************)
C19_RegisteredProviderHasDefaultConfig ==
  (stProvider # NoProvider /\ stType \in AllProviders /\ stPc # "provider") =>
    /\ stDefault # NoConfig
    /\ stDefault.model = stProvider.defaultModel
    /\ stDefault.maxTokens = Num(8000)
    /\ stDefault.temperature = Num((7 * TemperatureScale) \div 10)
    /\ stType # "bedrock" => stDefault.apiKey = env[EnvVarOf[stType]]

(***************************************************************************)
(* C20: asking for a provider name that is not registered fails, before a  *)
(* config is built or a request sent, with an error that says the provider *)
(* was not found and lists the names of all registered providers; asking   *)
(* for a registered name returns the instance registered last under it.    *)
(***************************************************************************)
\* the names of a list of register calls, each at its first occurrence
RECURSIVE FirstOccurrences(_, _)
FirstOccurrences(list, seen) ==
  IF list = <<>> THEN <<>>
  ELSE IF Head(list).name \in seen THEN FirstOccurrences(Tail(list), seen)
  ELSE <<Head(list).name>> \o FirstOccurrences(Tail(list), seen \cup {Head(list).name})

RECURSIVE CommaSeparated(_)
CommaSeparated(names) ==
  IF names = <<>> THEN ""
  ELSE IF Tail(names) = <<>> THEN Head(names)
  ELSE Head(names) \o ", " \o CommaSeparated(Tail(names))

RegisteredNames == {registered[k].name : k \in DOMAIN registered}

LastRegistered(name) ==
  registered[Max({k \in DOMAIN registered : registered[k].name = name})]

C20_State ==
  /\ (stPc # "constructed" /\ stType \notin RegisteredNames) =>
       /\ stPc = "failed"
       /\ stError = "Provider '" \o stType \o "' not found. Available providers: "
                      \o CommaSeparated(FirstOccurrences(registered, {}))
       /\ stProvider = NoProvider
       /\ stDefault = NoConfig
       /\ stConfig = NoConfig
  /\ (stPc # "constructed" /\ stType \in RegisteredNames) =>
       stProvider = LastRegistered(stType)

C20_Step == stPc = "failed" => stPc' = "failed"

C20_UnknownProviderFailsFirst == []C20_State /\ [][C20_Step]_vars

\* a name registered a second time was asked for and its later instance returned
C20_Witness ==
  /\ stProvider.name = "anthropic"
  /\ stProvider.id > 0
  /\ Cardinality({k \in DOMAIN registered : registered[k].name = "anthropic"}) >= 2


(***************************************************************************)
(* C21: for every provider, a response from which no content field the     *)
(* provider knows can be read makes generateResponse fail, and is never    *)
(* returned as a result with empty content; missing usage counters alone   *)
(* never make it fail and are reported as undefined.                       *)
(***************************************************************************)
C21_NoContentIsHardFailure ==
  rResponse # NoResponse =>
    /\ rResponse.content = "absent" =>
         (rOutcome.kind = "thrown" /\ rResult = NoResult)
    /\ (rResponse.content = "text" /\ ~rResponse.usage) =>
         (rOutcome.kind = "returned" /\ rResult = [content |-> "text", usage |-> "undefined"])

(***************************************************************************)
(* C22: every failure that propagates out of generateResponse is reported  *)
(* in one category read off the error: authentication, rate limit or quota *)
(* (a status of 429 included), timeout, or network; a failure with none of *)
(* these signals is reported as the provider's generic error, and a thrown *)
(* value that is no Error as an unknown error.                             *)
(***************************************************************************)
SignalledCategories(thrown) ==
  (IF "API key" \in thrown.message THEN {"Authentication failed"} ELSE {})
  \cup (IF "rate limit" \in thrown.message \/ "quota" \in thrown.message
           \/ thrown.status = 429
        THEN {"Rate limit exceeded"} ELSE {})
  \cup (IF "timeout" \in thrown.message THEN {"Request timeout"} ELSE {})
  \cup (IF "network" \in thrown.message \/ "connection" \in thrown.message
        THEN {"Network error"} ELSE {})

GenericCategories(provider, config) ==
  {contextOf(provider)} \cup ({validateConfigOf(provider, config)} \ {""})

C22_OneCategoryPerFailure ==
  rOutcome.kind = "thrown" =>
    IF ~rThrown.isError
    THEN rOutcome.category \in
           {contextOf(rProvider) \o ": Unknown error occurred"}
             \cup (IF rThrown.status = 429 THEN {"Rate limit exceeded"} ELSE {})
    ELSE IF SignalledCategories(rThrown) = {}
    THEN rOutcome.category \in GenericCategories(rProvider, rConfig)
    ELSE rOutcome.category \in SignalledCategories(rThrown)

(***************************************************************************)
(* C29: in the Anthropic provider the retry decision and the reported      *)
(* category agree: the failure that ends a call is reported as 'Rate limit *)
(* exceeded' exactly when the retry loop takes it for a rate-limit signal, *)
(* so it is never reported as rate-limited after a single attempt, and no  *)
(* failure is retried and then reported as authentication or generic.      *)
(***************************************************************************)
C29_RetryAndCategoryAgree ==
  (rProvider = "anthropic" /\ rOutcome.kind = "thrown" /\ Len(rLog) > 0) =>
    /\ RateLimited(rLog[Len(rLog)]) <=> rOutcome.category = "Rate limit exceeded"
    /\ rOutcome.category = "Rate limit exceeded" => Len(rLog) = maxRetries + 1

(***************************************************************************)
(* C26: for a non-empty token sequence and a positive chunk size the       *)
(* iterator yields exactly totalChunks chunks, with the indices 0 up to    *)
(* totalChunks - 1 in order and the same totalChunks on each; every chunk  *)
(* but the last holds exactly chunkSize tokens and the last holds between  *)
(* 1 and chunkSize; the test index < totalChunks - 1 that guards the pause *)
(* is false for the last chunk and for no other.                           *)
(***************************************************************************)
C26_ChunkIndicesAndSizes ==
  (tokens # <<>> /\ cSize > 0) =>
    /\ Len(yielded) <= calculateChunkCount(Len(tokens), cSize)
    /\ \A j \in 1..Len(yielded) :
         /\ yielded[j].index = j - 1
         /\ yielded[j].totalChunks = calculateChunkCount(Len(tokens), cSize)
         /\ yielded[j].totalChunks = totalChunks
         /\ yielded[j].tokenCount \in 1..cSize
         /\ j < Len(yielded) => yielded[j].tokenCount = cSize
         /\ j < Len(yielded) => yielded[j].index < yielded[j].totalChunks - 1
    /\ Exhausted =>
         /\ Len(yielded) = totalChunks
         /\ ~(yielded[Len(yielded)].index < totalChunks - 1)

\* a run of several chunks whose last chunk is a short one
C26_Witness ==
  /\ tokens # <<>>
  /\ Exhausted
  /\ Len(yielded) = totalChunks
  /\ totalChunks >= 2
  /\ yielded[totalChunks].tokenCount < cSize
  /\ yielded[totalChunks].index = totalChunks - 1

(***************************************************************************)
(* C23: the Bedrock payload dialect follows the family of the model id:    *)
(* every model the provider lists as available gets the dialect of its own *)
(* family (Claude the chat payload, Titan and Cohere a plain prompt, Llama *)
(* the instruction tags, the Mistral family the Mistral payload), and only *)
(* an id of no listed family falls back to the Claude payload.             *)
(***************************************************************************)
\* the family a listed model belongs to, by the vendor its id opens with
FamilyDialect(modelId) ==
  CASE modelId[1] = "anthropic" -> "claude"
    [] modelId[1] = "amazon" -> "titan"
    [] modelId[1] = "meta" -> "llama"
    [] modelId[1] = "mistral" -> "mistral"
    [] modelId[1] = "cohere" -> "cohere"

C23_DialectFollowsModelFamily ==
  (qProvider = "bedrock" /\ qPc = "sent") =>
    IF qModelId \in BedrockModels
    THEN qRequest.dialect = FamilyDialect(qModelId)
    ELSE qRequest.dialect = "claude"

(***************************************************************************)
(* C24: every request the Anthropic provider sends passes the system text  *)
(* apart from the messages and has a messages list whose last element has  *)
(* the role user; a call whose conversation does not end in a user turn is *)
(* either rejected before any request is built or sent with a list that    *)
(* ends in a user turn.                                                    *)
(***************************************************************************)
C24_AnthropicListEndsWithUser ==
  qProvider = "anthropic" =>
    /\ qPc = "sent" =>
         /\ qRequest.roles # <<>>
         /\ qRequest.roles[Len(qRequest.roles)] = "user"
         /\ \A j \in 1..Len(qRequest.roles) : qRequest.roles[j] # "system"
         /\ qRequest.system = IF hasSystem(qMessages) THEN "separate" ELSE "undefined"
         /\ Len(qRequest.roles) = Len(conversationOf(qMessages))
    /\ qPc = "rejected" => qRequest = NoRequest
    /\ qPc = "call" => qRequest = NoRequest

\* a conversation that ends in an assistant turn is sent ending in a user turn
C24_Witness ==
  /\ qProvider = "anthropic"
  /\ qPc = "sent"
  /\ qMessages # <<>>
  /\ qMessages[Len(qMessages)] = "assistant"
  /\ qRequest.roles[Len(qRequest.roles)] = "user"

(***************************************************************************)
(* C28: for every config validateConfig accepts, the request carries the   *)
(* maxTokens and the temperature of the config whenever the config gives   *)
(* them, a temperature of 0 being sent as 0, and the defaults 8000 and 0.7 *)
(* only where the config leaves the value out.                             *)
(***************************************************************************)
C28_RequestCarriesConfiguredValues ==
  qPc = "sent" =>
    /\ qRequest.maxTokens =
         IF qConfig.maxTokens.set THEN qConfig.maxTokens ELSE Num(8000)
    /\ qRequest.temperature =
         IF qConfig.temperature.set THEN qConfig.temperature
         ELSE Num((7 * TemperatureScale) \div 10)

(***************************************************************************)
(* C25: after the one sanitization pass the text holds no marker           *)
(* (<|endoftext|>, <|end|>, <|start|>), no null byte and no U+FFFD, also   *)
(* where a marker only shows once another has been removed from inside it; *)
(* sanitizing the sanitized text again changes nothing; and the token      *)
(* count and the cost estimate are taken from the sanitized text.          *)
(***************************************************************************)
Clean(text) ==
  /\ ~Contains(text, MarkerEndOfText)
  /\ ~Contains(text, MarkerEnd)
  /\ ~Contains(text, MarkerStart)
  /\ ~Contains(text, NullByte)
  /\ ~Contains(text, ReplacementChar)

C25_SanitizedTextIsClean ==
  /\ sPc \in {"counted", "again"} =>
       /\ Clean(sSanitized)
       /\ sTokens = encode(sSanitized)
       /\ sCost = Len(sTokens) * costPerToken
  /\ sPc = "again" => sAgain = sSanitized

(***************************************************************************)
(* C27: for every chunk size the command line can pass (positive, zero,    *)
(* negative, NaN) the chunk sequence is finite and the loop ends: every    *)
(* turn of the loop moves the offset forward, so no more chunks are        *)
(* yielded than there are tokens; zero and NaN fall back to the default    *)
(* chunk size.                                                             *)
(***************************************************************************)
C27_ChunkLoopTerminates ==
  /\ kIndex <= Len(kTokens)
  /\ \A j \in 1..Len(kOffsets) :
       /\ kOffsets[j] >= 0
       /\ j > 1 => kOffsets[j] > kOffsets[j - 1]
  /\ kPc = "iter" => kI >= 0
  /\ kChunkSize = 0 => cSizeOf(kChunkSize) = CHUNK_SIZE

(***************************************************************************)
(* C30: across any sequence of generateResponse calls on one provider      *)
(* instance, each call sends its request through a client built from the   *)
(* config of that call: its apiKey for Anthropic, its apiKey and baseURL   *)
(* for OpenAI, its region for Bedrock.                                     *)
(***************************************************************************)
C30_ClientFollowsCallConfig ==
  \A j \in 1..Len(cUsed) : cUsed[j] = newClient(cProvider, cConfigs[j])

====
